---- MODULE Spec2Model ----
(***************************************************************************)
(* A model of src/src/md5sum.c: the checksum line codec (split_3,          *)
(* bsd_split_3, filename_unescape, print_digest), the verification engine  *)
(* (digest_check, digest_file), the directory cycle guard (visit_dir,      *)
(* dev_ino_push, dev_ino_pop) and the directory walk of compute mode       *)
(* (gobble_file, extract_dirs_from_files, digest_current_files,            *)
(* digest_directory, main).                                                *)
(*                                                                         *)
(* C strings are sequences of one-character strings; index arguments are   *)
(* 0-based as in the C code.  NUL stands for the zero byte.                *)
(***************************************************************************)
EXTENDS Integers, Sequences, FiniteSets, TLC

\* ------------------------------------------------------------------------
\* Characters and C string helpers
\* ------------------------------------------------------------------------

NUL == "NUL"
BS == "\\"
NL == "\n"

\* s[i] of a NUL-terminated buffer holding the characters of s.
At(s, i) == IF i < Len(s) THEN s[i + 1] ELSE NUL

\* The suffix s + i of a buffer (the pointer &s[i]).
From(s, i) == IF i >= Len(s) THEN << >> ELSE SubSeq(s, i + 1, Len(s))

\* The C string that starts at s: the characters before the first NUL.
SetMin(S) == CHOOSE k \in S : \A j \in S : k <= j
SetMax(S) == CHOOSE k \in S : \A j \in S : j <= k

CStr(s) ==
  LET nuls == {k \in 1..Len(s) : s[k] = NUL}
  IN IF nuls = {} THEN s ELSE SubSeq(s, 1, SetMin(nuls) - 1)

\* s with s[i] overwritten by c (a store beyond the characters of s hits the
\* terminator and leaves the characters alone).
Store(s, i, c) == IF i < Len(s) THEN [s EXCEPT ![i + 1] = c] ELSE s

ISWHITE(c) == c = " " \/ c = "\t"

DecDigits == << "0", "1", "2", "3", "4", "5", "6", "7", "8", "9" >>

ISDIGIT(c) == c \in {"0", "1", "2", "3", "4", "5", "6", "7", "8", "9"}

bin2hex ==
  << "0", "1", "2", "3", "4", "5", "6", "7",
     "8", "9", "a", "b", "c", "d", "e", "f" >>

UpperHex == << "A", "B", "C", "D", "E", "F" >>

HexChars ==
  {"0", "1", "2", "3", "4", "5", "6", "7", "8", "9",
   "a", "b", "c", "d", "e", "f", "A", "B", "C", "D", "E", "F"}

isxdigit(c) == c \in HexChars

tolower(c) ==
  IF \E k \in 1..6 : UpperHex[k] = c
  THEN bin2hex[10 + (CHOOSE k \in 1..6 : UpperHex[k] = c)]
  ELSE c

toupper(c) ==
  IF \E k \in 11..16 : bin2hex[k] = c
  THEN UpperHex[(CHOOSE k \in 11..16 : bin2hex[k] = c) - 10]
  ELSE c

\* ------------------------------------------------------------------------
\* Per-algorithm compilation (the HASH_ALGO_* preprocessor branches)
\* ------------------------------------------------------------------------

Builds == {"MD5", "SHA3", "BLAKE2b"}

DIGEST_TYPE_STRING(build) ==
  CASE build = "MD5" -> << "M", "D", "5" >>
    [] build = "SHA3" -> << "S", "H", "A", "3" >>
    [] build = "BLAKE2b" -> << "B", "L", "A", "K", "E", "2", "b" >>

DIGEST_BITS(build) == IF build = "MD5" THEN 128 ELSE 512

HASH_HAVE_VARIABLE_SIZE(build) == build \in {"SHA3", "BLAKE2b"}

digest_max_len == 64

MIN_DIGEST_LINE_LENGTH(build) ==
  CASE build = "SHA3" -> 28 + 2 + 1
    [] build = "BLAKE2b" -> 1 + 2 + 1
    [] OTHER -> (DIGEST_BITS(build) \div 4) + 2 + 1

\* ------------------------------------------------------------------------
\* Checksum line codec: parsing
\* ------------------------------------------------------------------------

RECURSIVE SkipWhite(_, _)
SkipWhite(s, i) == IF ISWHITE(At(s, i)) THEN SkipWhite(s, i + 1) ELSE i

RECURSIVE UnescapeFrom(_, _, _, _)
UnescapeFrom(s, s_len, i, dst) ==
  IF i >= s_len THEN [ok |-> TRUE, out |-> dst]
  ELSE IF At(s, i) = BS
       THEN IF i = s_len - 1
            THEN [ok |-> FALSE, out |-> << >>]
            ELSE IF At(s, i + 1) = "n"
                 THEN UnescapeFrom(s, s_len, i + 2, Append(dst, NL))
                 ELSE IF At(s, i + 1) = BS
                      THEN UnescapeFrom(s, s_len, i + 2, Append(dst, BS))
                      ELSE [ok |-> FALSE, out |-> << >>]
       ELSE IF At(s, i) = NUL
            THEN [ok |-> FALSE, out |-> << >>]
            ELSE UnescapeFrom(s, s_len, i + 1, Append(dst, At(s, i)))

\* filename_unescape: ok is FALSE for the NULL return; out is the C string
\* left at s.
filename_unescape(s, s_len) == UnescapeFrom(s, s_len, 0, << >>)

hex_digits(s, digest_hex_bytes) ==
  /\ \A k \in 0..(digest_hex_bytes - 1) : isxdigit(At(s, k))
  /\ At(s, digest_hex_bytes) = NUL

\* The index the backward scan from i stops at: the last ')' at or before
\* i, or 0.
FindCloseParen(s, i) ==
  LET parens == {k \in 1..i : At(s, k) = ")"}
  IN IF parens = {} THEN 0 ELSE SetMax(parens)

SplitFail == [ok |-> FALSE, hex_digest |-> << >>, file_name |-> << >>]

bsd_split_3(s, s_len, escaped_filename, digest_hex_bytes) ==
  IF s_len = 0 THEN SplitFail
  ELSE
    LET i == FindCloseParen(s, s_len - 1) IN
    IF At(s, i) # ")" THEN SplitFail
    ELSE
      LET un == IF escaped_filename
                THEN filename_unescape(s, i)
                ELSE [ok |-> TRUE, out |-> CStr(SubSeq(s, 1, i))]
          j == SkipWhite(s, i + 1)
          k == SkipWhite(s, j + 1)
      IN IF ~un.ok THEN SplitFail
         ELSE IF At(s, j) # "=" THEN SplitFail
         ELSE [ok |-> hex_digits(From(s, k), digest_hex_bytes),
               hex_digest |-> CStr(From(s, k)),
               file_name |-> un.out]

IsPrefix(a, b) == Len(a) <= Len(b) /\ SubSeq(b, 1, Len(a)) = a

\* strncmp (s + i, t, strlen (t)) == 0
StartsWith(s, i, t) == \A k \in 1..Len(t) : At(s, i + k - 1) = t[k]

\* argmatch of one candidate: ARG matches when it abbreviates the candidate.
argmatch(arg, candidate) == IsPrefix(arg, candidate)

RECURSIVE SkipVariant(_, _)
SkipVariant(s, i) ==
  IF At(s, i) # NUL /\ ~ISWHITE(At(s, i)) /\ At(s, i) # "-" /\ At(s, i) # "("
  THEN SkipVariant(s, i + 1)
  ELSE i

RECURSIVE SkipDigits(_, _)
SkipDigits(s, i) == IF ISDIGIT(At(s, i)) THEN SkipDigits(s, i + 1) ELSE i

DigitVal(c) == (CHOOSE k \in 1..10 : DecDigits[k] = c) - 1

RECURSIVE ParseDigits(_, _, _, _)
ParseDigits(s, i, base, acc) ==
  IF ISDIGIT(At(s, i)) /\ DigitVal(At(s, i)) < base
  THEN ParseDigits(s, i + 1, base, acc * base + DigitVal(At(s, i)))
  ELSE acc

\* xstrtoul (s + i, NULL, 0, &val, NULL) on a number written in digits:
\* base 0 reads a leading 0 as octal.  Anything that does not start with a
\* digit is reported as not LONGINT_OK.
xstrtoul(s, i) ==
  IF ~ISDIGIT(At(s, i)) THEN [ok |-> FALSE, val |-> 0]
  ELSE [ok |-> TRUE,
        val |-> ParseDigits(s, i, IF At(s, i) = "0" THEN 8 ELSE 10, 0)]

\* The number of consecutive hex digits at s + i.
CountHex(s, i) ==
  IF i >= Len(s) THEN 0
  ELSE SetMin({k \in i..Len(s) : ~isxdigit(At(s, k))}) - i

\* The result of split_3: ok, the three output parameters, and the globals
\* the call leaves behind.  binary = -1: *binary was not assigned.
Split3Result(ok, hex, bin, name, br, dl, dhb) ==
  [ok |-> ok, hex_digest |-> hex, binary |-> bin, file_name |-> name,
   bsd_reversed |-> br, digest_length |-> dl, digest_hex_bytes |-> dhb]

\* The tagged ("BSD-style") branch of split_3; i is the index of the tag.
split_3_tagged(s, s_len, i, escaped_filename, build, g) ==
  LET i1 == i + Len(DIGEST_TYPE_STRING(build))
      var == HASH_HAVE_VARIABLE_SIZE(build)
      stop == SkipVariant(s, i1)
      length_specified == At(s, stop) = "-"
      openssl_format == At(s, stop) = "("
      s1 == IF var /\ ~openssl_format THEN Store(s, stop, NUL) ELSE s
      algo_name == CStr(From(Store(s, stop, NUL), i))
      algo_ok == argmatch(algo_name, DIGEST_TYPE_STRING(build))
      i2 == IF ~var THEN i1 ELSE IF openssl_format THEN stop ELSE stop + 1
      num == xstrtoul(s1, i2)
      len_ok == /\ num.ok
                /\ num.val > 0
                /\ num.val <= digest_max_len * 8
                /\ num.val % 8 = 0
      dl == IF ~var THEN g.digest_length
            ELSE IF ~algo_ok THEN g.digest_length
            ELSE IF length_specified
                 THEN (IF len_ok THEN num.val ELSE g.digest_length)
                 ELSE digest_max_len * 8
      dhb == IF var /\ algo_ok /\ (length_specified => len_ok)
             THEN dl \div 4 ELSE g.digest_hex_bytes
      i3 == IF var /\ length_specified THEN SkipDigits(s1, i2) ELSE i2
      i4 == IF At(s1, i3) = " " THEN i3 + 1 ELSE i3
      sub == bsd_split_3(From(s1, i4 + 1), s_len - (i4 + 1),
                         escaped_filename, dhb)
      fail == Split3Result(FALSE, << >>, -1, << >>, g.bsd_reversed, dl, dhb)
  IN IF var /\ ~algo_ok THEN fail
     ELSE IF var /\ length_specified /\ ~len_ok THEN fail
     ELSE IF At(s1, i4) # "(" THEN fail
     ELSE Split3Result(sub.ok, sub.hex_digest, 0, sub.file_name,
                       g.bsd_reversed, dl, dhb)

\* A variant of the style latch that accepts a BSD-reversed line after a GNU
\* line has set the style.
StyleLatch_NoReject(reversed, latch) ==
  [fail |-> FALSE,
   gnu |-> ~reversed /\ latch # 1,
   latch |-> IF reversed THEN 1 ELSE IF latch # 1 THEN 0 ELSE latch]

\* A variant of the style latch that reads the mode character only while
\* the style is still unknown.
StyleLatch_OnlyFirstLine(reversed, latch) ==
  [fail |-> reversed /\ latch = 0,
   gnu |-> ~reversed /\ latch = -1,
   latch |-> IF reversed THEN 1 ELSE IF latch = -1 THEN 0 ELSE latch]

\* A variant of the style latch that reads every line by its own shape,
\* whatever the lines before it were.
StyleLatch_Stateless(reversed, latch) ==
  [fail |-> FALSE, gnu |-> ~reversed, latch |-> IF reversed THEN 1 ELSE 0]

\* The style latch of split_3: REVERSED says that the text after the digest
\* does not start with a mode character; the line fails if the GNU style is
\* established, is read in GNU style unless the reversed style is, and the
\* latch is set accordingly.
StyleLatch(reversed, latch) ==
  [fail |-> reversed /\ latch = 0,
   gnu |-> ~reversed /\ latch # 1,
   latch |-> IF reversed THEN 1 ELSE IF latch # 1 THEN 0 ELSE latch]

\* The untagged branch of split_3; i is the index of the first hex digit.
split_3_untagged(s, s_len, i, escaped_filename, build, g) ==
  LET var == HASH_HAVE_VARIABLE_SIZE(build)
      counted == CountHex(s, i)
      len_bad == var /\ (counted < 2 \/ counted % 2 # 0
                         \/ digest_max_len * 2 < counted)
      dhb == IF var THEN counted ELSE g.digest_hex_bytes
      dl == IF var /\ ~len_bad THEN dhb * 4 ELSE g.digest_length
      i1 == i + dhb
      s1 == Store(s, i1, NUL)
      i2 == i1 + 1
      hex == CStr(From(s1, i))
      reversed == (s_len - i2 = 1) \/ (At(s1, i2) # " " /\ At(s1, i2) # "*")
      sl == StyleLatch(reversed, g.bsd_reversed)
      gnu == sl.gnu
      br == sl.latch
      i3 == IF gnu THEN i2 + 1 ELSE i2
      bin == IF gnu THEN (IF At(s1, i2) = "*" THEN 1 ELSE 0) ELSE -1
      un == IF escaped_filename
            THEN filename_unescape(From(s1, i3), s_len - i3)
            ELSE [ok |-> TRUE, out |-> CStr(From(s1, i3))]
      fail(b) == Split3Result(FALSE, << >>, -1, << >>, b, dl, dhb)
  IN IF s_len - i < g.min_digest_line_length + (IF At(s, i) = BS THEN 1 ELSE 0)
     THEN Split3Result(FALSE, << >>, -1, << >>, g.bsd_reversed,
                       g.digest_length, g.digest_hex_bytes)
     ELSE IF len_bad THEN fail(g.bsd_reversed)
     ELSE IF ~ISWHITE(At(s, i1)) THEN fail(g.bsd_reversed)
     ELSE IF ~hex_digits(From(s1, i), dhb) THEN fail(g.bsd_reversed)
     ELSE IF sl.fail THEN fail(g.bsd_reversed)
     ELSE Split3Result(un.ok, hex, bin, un.out, br, dl, dhb)

\* split_3 (s, s_len, &hex_digest, &binary, &file_name).  g holds the globals
\* bsd_reversed, digest_length, digest_hex_bytes, min_digest_line_length.
split_3(s, s_len, build, g) ==
  LET i0 == SkipWhite(s, 0)
      escaped_filename == At(s, i0) = BS
      i == IF escaped_filename THEN i0 + 1 ELSE i0
  IN IF StartsWith(s, i, DIGEST_TYPE_STRING(build))
     THEN split_3_tagged(s, s_len, i, escaped_filename, build, g)
     ELSE split_3_untagged(s, s_len, i, escaped_filename, build, g)

\* ------------------------------------------------------------------------
\* Checksum line codec: formatting
\* ------------------------------------------------------------------------

RECURSIVE print_filename(_, _)
print_filename(file, escape) ==
  IF file = << >> THEN << >>
  ELSE IF ~escape THEN file
  ELSE (IF Head(file) = NL THEN << BS, "n" >>
        ELSE IF Head(file) = BS THEN << BS, BS >>
        ELSE << Head(file) >>) \o print_filename(Tail(file), escape)

RECURSIVE PRIuMAX(_)
PRIuMAX(n) ==
  IF n < 10 THEN << DecDigits[n + 1] >>
  ELSE PRIuMAX(n \div 10) \o << DecDigits[(n % 10) + 1] >>

\* printf ("%02x", b) of the first n bytes of bin_buffer.
Hex02x(bin_buffer, n) ==
  [k \in 1..(2 * n) |->
     IF k % 2 = 1
     THEN bin2hex[(bin_buffer[(k + 1) \div 2] \div 16) + 1]
     ELSE bin2hex[(bin_buffer[k \div 2] % 16) + 1]]

Contains(file, c) == \E k \in 1..Len(file) : file[k] = c

\* A variant of print_digest that escapes the file name but does not put the
\* backslash in front of the line.
print_digest_NoEscapeMark(file, file_is_binary, bin_buffer, build, o) ==
  LET needs_escape == (Contains(file, BS) \/ Contains(file, NL)) /\ o.delim = NL
      esc == << >>
      tag == IF HASH_HAVE_VARIABLE_SIZE(build)
             THEN DIGEST_TYPE_STRING(build)
                  \o (IF o.digest_length < digest_max_len * 8
                      THEN << "-" >> \o PRIuMAX(o.digest_length) ELSE << >>)
             ELSE DIGEST_TYPE_STRING(build)
      hex == Hex02x(bin_buffer, o.digest_hex_bytes \div 2)
  IN IF o.prefix_tag
     THEN esc \o tag \o << " ", "(" >> \o print_filename(file, needs_escape)
          \o << ")", " ", "=", " " >> \o hex
     ELSE esc \o hex \o << " ", (IF file_is_binary # 0 THEN "*" ELSE " ") >>
          \o print_filename(file, needs_escape)

\* print_digest: the characters written before the delimiter.  o holds
\* prefix_tag, delim, digest_length and digest_hex_bytes.
print_digest(file, file_is_binary, bin_buffer, build, o) ==
  LET needs_escape == (Contains(file, BS) \/ Contains(file, NL)) /\ o.delim = NL
      esc == IF needs_escape THEN << BS >> ELSE << >>
      tag == IF HASH_HAVE_VARIABLE_SIZE(build)
             THEN DIGEST_TYPE_STRING(build)
                  \o (IF o.digest_length < digest_max_len * 8
                      THEN << "-" >> \o PRIuMAX(o.digest_length) ELSE << >>)
             ELSE DIGEST_TYPE_STRING(build)
      hex == Hex02x(bin_buffer, o.digest_hex_bytes \div 2)
  IN IF o.prefix_tag
     THEN esc \o tag \o << " ", "(" >> \o print_filename(file, needs_escape)
          \o << ")", " ", "=", " " >> \o hex
     ELSE esc \o hex \o << " ", (IF file_is_binary # 0 THEN "*" ELSE " ") >>
          \o print_filename(file, needs_escape)

\* ------------------------------------------------------------------------
\* State
\* ------------------------------------------------------------------------

VARIABLES
  build,                  \* which HASH_ALGO_* the file was compiled for
  pc,                     \* position of main
  \* option flags (file-scope statics)
  status_only, warn, ignore_missing, quiet, strict, do_check,
  \* codec globals
  bsd_reversed, digest_length, digest_hex_bytes, min_digest_line_length,
  prefix_tag, delim,
  \* check mode
  have_read_stdin,
  argv_left,              \* manifest operands main has still to check
  is_stdin,               \* the manifest being checked is standard input
  manifest,               \* the lines of the manifest file
  manifest_io,            \* how the manifest stream behaves
  line_number,            \* digest_check: lines read so far
  dc,                     \* digest_check: its counters and flags
  out,                    \* what check mode wrote to stdout, per line
  hist,                   \* what each line of this digest_check call led to
  stdin_eof,              \* standard input has been read to its end
  runs,                   \* what each finished digest_check returned
  ok, exit_status,
  \* compute mode
  recursive, ignore_mode,
  fs,                     \* the directories of the file system
  argv, optind,           \* the operands, and the next one to gobble
  cwd_file, cwd_n_used,   \* the inventory and its occupancy
  pending_dirs,           \* the queue of directories and markers
  active_dir_set,         \* the hash table of the cycle guard
  dev_ino_obstack,        \* the stack that mirrors it
  stack,                  \* the calls in progress below main
  err,                    \* the diagnostics written to stderr
  last_visit,             \* the last call of visit_dir and what it returned
  \* formatting and parsing of one line
  sample, printed_line, parse,
  \* hashing of one stream
  ctx,                    \* struct sha3_*_ctx: state, index and block
  chunks,                 \* the lengths of the sha3_*_update calls so far
  \* signals
  interrupt_signal,       \* the pending fatal signal, or 0
  stop_signal_count,      \* the number of pending stop signals
  stdout_buffered,        \* stdout holds output that was not flushed
  siglog                  \* the signals caught and raised, and the flushes

optVars == << status_only, warn, ignore_missing, quiet, strict, do_check >>
codecVars == << bsd_reversed, digest_length, digest_hex_bytes,
                min_digest_line_length, prefix_tag, delim >>
checkVars == << have_read_stdin, argv_left, is_stdin, manifest, manifest_io,
                line_number, dc, out, hist, stdin_eof, runs >>
walkVars == << recursive, ignore_mode, fs, argv, optind, cwd_file, cwd_n_used,
               pending_dirs, active_dir_set, dev_ino_obstack, stack, err,
               last_visit >>
signalVars == << interrupt_signal, stop_signal_count, stdout_buffered, siglog >>
roundVars == << sample, printed_line, parse, ctx, chunks, signalVars >>
vars == << build, pc, optVars, codecVars, checkVars, ok, exit_status, walkVars,
           roundVars >>

\* ------------------------------------------------------------------------
\* Bounds
\* ------------------------------------------------------------------------

MaxLines == 2
MaxManifestOperands == 2
MaxOperands == 2
MaxNameLen == 2
MaxVisits == 4
MaxDepth == 8

\* ------------------------------------------------------------------------
\* Option parsing (main)
\* ------------------------------------------------------------------------

OptionsInit ==
  /\ status_only = FALSE
  /\ warn = FALSE
  /\ ignore_missing = FALSE
  /\ quiet = FALSE
  /\ strict = FALSE
  /\ do_check = FALSE

CodecInit ==
  /\ bsd_reversed = -1
  /\ digest_length = 0
  /\ digest_hex_bytes = 0
  /\ min_digest_line_length = 0
  /\ prefix_tag = FALSE
  /\ delim = NL

\* case STATUS_OPTION
OptStatus ==
  /\ pc = "getopt"
  /\ status_only' = TRUE /\ warn' = FALSE /\ quiet' = FALSE
  /\ UNCHANGED << build, pc, ignore_missing, strict, do_check, codecVars,
                  checkVars, ok, exit_status >>
  /\ UNCHANGED << walkVars, roundVars >>

\* case 'w'
OptWarn ==
  /\ pc = "getopt"
  /\ status_only' = FALSE /\ warn' = TRUE /\ quiet' = FALSE
  /\ UNCHANGED << build, pc, ignore_missing, strict, do_check, codecVars,
                  checkVars, ok, exit_status >>
  /\ UNCHANGED << walkVars, roundVars >>

\* A variant of case QUIET_OPTION that sets quiet and leaves the other two
\* flags as they are.
OptQuiet_LeavesOthers ==
  /\ pc = "getopt"
  /\ quiet' = TRUE
  /\ UNCHANGED << build, pc, status_only, warn, ignore_missing, strict, do_check,
                  codecVars, checkVars, ok, exit_status >>
  /\ UNCHANGED << walkVars, roundVars >>

\* case QUIET_OPTION
OptQuiet ==
  /\ pc = "getopt"
  /\ status_only' = FALSE /\ warn' = FALSE /\ quiet' = TRUE
  /\ UNCHANGED << build, pc, ignore_missing, strict, do_check, codecVars,
                  checkVars, ok, exit_status >>
  /\ UNCHANGED << walkVars, roundVars >>

\* case IGNORE_MISSING_OPTION
OptIgnoreMissing ==
  /\ pc = "getopt"
  /\ ignore_missing' = TRUE
  /\ UNCHANGED << build, pc, status_only, warn, quiet, strict, do_check,
                  codecVars, checkVars, ok, exit_status >>
  /\ UNCHANGED << walkVars, roundVars >>

\* case STRICT_OPTION
OptStrict ==
  /\ pc = "getopt"
  /\ strict' = TRUE
  /\ UNCHANGED << build, pc, status_only, warn, quiet, ignore_missing, do_check,
                  codecVars, checkVars, ok, exit_status >>
  /\ UNCHANGED << walkVars, roundVars >>

\* ------------------------------------------------------------------------
\* The files a manifest can name, and the digest backend
\* ------------------------------------------------------------------------

\* File names used by the manifests and operands of the model.
NameF == << "f" >>
NameG == << "g", "g" >>
NameMissing == << "m" >>
NameNoPerm == << "p" >>
NameBadRead == << "r" >>
NameStdin == << "-" >>

\* What fopen and the read of a file yield: f and g are readable files with
\* different contents, p cannot be opened (EACCES), r fails while being read,
\* "-" is standard input (content 0 stands for no bytes, which is what a
\* stream already read to its end yields), and no other name exists (ENOENT).
FileEnv(name) ==
  CASE name = NameF -> [open |-> "ok", read |-> "ok", content |-> 1]
    [] name = NameG -> [open |-> "ok", read |-> "ok", content |-> 2]
    [] name = NameStdin -> [open |-> "ok", read |-> "ok", content |-> 2]
    [] name = NameNoPerm -> [open |-> "EACCES", read |-> "ok", content |-> 0]
    [] name = NameBadRead -> [open |-> "ok", read |-> "EIO", content |-> 0]
    [] OTHER -> [open |-> "ENOENT", read |-> "ok", content |-> 0]

\* What a manifest line's file name leads to when it is opened and read.
FileAt(filename, at_eof) ==
  IF filename = NameStdin /\ at_eof
  THEN [FileEnv(filename) EXCEPT !.content = 0]
  ELSE FileEnv(filename)

\* The first n bytes of the digest of a content.
DigestOf(content, n) == [k \in 1..n |-> (content * 89 + k * 37) % 256]

\* DIGEST_STREAM (fp, bin_buffer[, digest_length / 8]): err # 0 on a read
\* error.  sha3_stream has no case for a length other than 28, 32, 48 and
\* 64: it returns -1, or (HAS_ASSERT: the version with the default branch,
\* assertions compiled in) the assertion fails.
DIGEST_STREAM(file, b, datalen, has_assert) ==
  LET n == IF HASH_HAVE_VARIABLE_SIZE(b) THEN datalen ELSE DIGEST_BITS(b) \div 8
  IN IF b = "SHA3" /\ datalen \notin {28, 32, 48, 64}
     THEN [err |-> -1, abort |-> has_assert, bin |-> << >>]
     ELSE IF file.read # "ok"
          THEN [err |-> 1, abort |-> FALSE, bin |-> << >>]
          ELSE [err |-> 0, abort |-> FALSE, bin |-> DigestOf(file.content, n)]

\* A variant of digest_file that reports a missing file as a failure even
\* under --ignore-missing.
digest_file_MissingFails(file, is_stdin_file, b, ign_missing, dlen, has_assert) ==
  LET st == DIGEST_STREAM(file, b, dlen \div 8, has_assert)
      none == [ok |-> FALSE, missing |-> FALSE, bin |-> << >>,
               abort |-> FALSE, read_stdin |-> is_stdin_file]
  IN IF ~is_stdin_file /\ file.open # "ok"
     THEN none
     ELSE IF st.abort THEN [none EXCEPT !.abort = TRUE]
     ELSE IF st.err # 0 THEN none
     ELSE [none EXCEPT !.ok = TRUE, !.bin = st.bin]

\* digest_file (filename, &binary, bin_buffer, &missing); FILE is what the
\* file system holds under that name, IS_STDIN_FILE is STREQ (filename, "-").
digest_file(file, is_stdin_file, b, ign_missing, dlen, has_assert) ==
  LET st == DIGEST_STREAM(file, b, dlen \div 8, has_assert)
      none == [ok |-> FALSE, missing |-> FALSE, bin |-> << >>,
               abort |-> FALSE, read_stdin |-> is_stdin_file]
  IN IF ~is_stdin_file /\ file.open # "ok"
     THEN IF ign_missing /\ file.open = "ENOENT"
          THEN [none EXCEPT !.ok = TRUE, !.missing = TRUE]
          ELSE none
     ELSE IF st.abort THEN [none EXCEPT !.abort = TRUE]
     ELSE IF st.err # 0 THEN none
     ELSE [none EXCEPT !.ok = TRUE, !.bin = st.bin]

\* ------------------------------------------------------------------------
\* Verification engine (digest_check)
\* ------------------------------------------------------------------------

\* A variant of the comparison that does not fold the case of the line's
\* digits.
DigestMatches_CaseSensitive(hex_digest, bin_buffer, dhb) ==
  \A cnt \in 0..((dhb \div 2) - 1) :
    /\ At(hex_digest, 2 * cnt) = bin2hex[(bin_buffer[cnt + 1] \div 16) + 1]
    /\ At(hex_digest, 2 * cnt + 1) = bin2hex[(bin_buffer[cnt + 1] % 16) + 1]

\* The loop that compares the computed digest with the text of the line.
DigestMatches(hex_digest, bin_buffer, dhb) ==
  \A cnt \in 0..((dhb \div 2) - 1) :
    /\ tolower(At(hex_digest, 2 * cnt)) = bin2hex[(bin_buffer[cnt + 1] \div 16) + 1]
    /\ tolower(At(hex_digest, 2 * cnt + 1)) = bin2hex[(bin_buffer[cnt + 1] % 16) + 1]

\* A variant of the output of a line in which --quiet does not silence OK.
LineOutput_QuietPrintsOk(outcome, filename, st_only, qt) ==
  LET needs_escape == ~st_only /\ Contains(filename, NL)
      shown == (IF needs_escape THEN << BS >> ELSE << >>)
               \o print_filename(filename, needs_escape)
  IN CASE outcome = "failed_open" ->
            IF ~st_only THEN << [name |-> shown, text |-> "FAILED open or read"] >>
            ELSE << >>
       [] outcome = "mismatch" ->
            IF ~st_only THEN << [name |-> shown, text |-> "FAILED"] >> ELSE << >>
       [] outcome = "match" ->
            IF ~st_only THEN << [name |-> shown, text |-> "OK"] >> ELSE << >>
       [] OTHER -> << >>

\* What digest_check prints on stdout for one well-formed line.
LineOutput(outcome, filename, st_only, qt) ==
  LET needs_escape == ~st_only /\ Contains(filename, NL)
      shown == (IF needs_escape THEN << BS >> ELSE << >>)
               \o print_filename(filename, needs_escape)
  IN CASE outcome = "failed_open" ->
            IF ~st_only THEN << [name |-> shown, text |-> "FAILED open or read"] >>
            ELSE << >>
       [] outcome = "mismatch" ->
            IF ~st_only THEN << [name |-> shown, text |-> "FAILED"] >> ELSE << >>
       [] outcome = "match" ->
            IF ~st_only /\ ~qt THEN << [name |-> shown, text |-> "OK"] >> ELSE << >>
       [] OTHER -> << >>

DcInit ==
  [n_misformatted_lines |-> 0,
   n_improperly_formatted_lines |-> 0,
   n_mismatched_checksums |-> 0,
   n_open_or_read_failures |-> 0,
   properly_formatted_lines |-> FALSE,
   matched_checksums |-> FALSE]

\* The branch of the loop body that a line takes: SP is what split_3
\* returned for it and DF what digest_file returned for the file it names.
LineOutcome(line, sp, df, stdin_manifest, ign_missing) ==
  IF At(line, 0) = "#" THEN "comment"
  ELSE IF ~(sp.ok /\ ~(stdin_manifest /\ sp.file_name = NameStdin))
       THEN "misformatted"
  ELSE IF df.abort THEN "abort"
  ELSE IF ~df.ok THEN "failed_open"
  ELSE IF ign_missing /\ df.missing THEN "ignored"
  ELSE IF DigestMatches(sp.hex_digest, df.bin, sp.digest_hex_bytes)
       THEN "match" ELSE "mismatch"

\* The counters and flags of digest_check after a line took that branch.
CountLine(d, outcome) ==
  CASE outcome = "comment" -> d
    [] outcome = "misformatted" ->
         [d EXCEPT !.n_misformatted_lines = @ + 1,
                   !.n_improperly_formatted_lines = @ + 1]
    [] outcome = "abort" -> [d EXCEPT !.properly_formatted_lines = TRUE]
    [] outcome = "failed_open" ->
         [d EXCEPT !.properly_formatted_lines = TRUE,
                   !.n_open_or_read_failures = @ + 1]
    [] outcome = "ignored" -> [d EXCEPT !.properly_formatted_lines = TRUE]
    [] outcome = "mismatch" ->
         [d EXCEPT !.properly_formatted_lines = TRUE,
                   !.n_mismatched_checksums = @ + 1]
    [] outcome = "match" ->
         [d EXCEPT !.properly_formatted_lines = TRUE,
                   !.matched_checksums = TRUE]

\* What one iteration of the loop leaves behind.
LineResult(sp, df, outcome, d, g, st_only, qt) ==
  [outcome |-> outcome,
   dc |-> CountLine(d, outcome),
   g |-> IF outcome = "comment" THEN g
         ELSE [g EXCEPT !.bsd_reversed = sp.bsd_reversed,
                        !.digest_length = sp.digest_length,
                        !.digest_hex_bytes = sp.digest_hex_bytes],
   file_name |-> IF outcome = "comment" THEN << >> ELSE sp.file_name,
   parsed |-> outcome # "comment" /\ sp.ok,
   read_stdin |-> outcome \notin {"comment", "misformatted"} /\ df.read_stdin,
   printed |-> LineOutput(outcome, sp.file_name, st_only, qt)]

\* The loop body from the call of digest_file on.
CheckParsedLine(line, sp, df, d, g, stdin_manifest, ign_missing, st_only, qt) ==
  LineResult(sp, df, LineOutcome(line, sp, df, stdin_manifest, ign_missing),
             d, g, st_only, qt)

\* The loop body after split_3 returned SP.
CheckSplitLine(line, sp, d, b, g, stdin_manifest, at_eof, ign_missing, st_only, qt, has_assert) ==
  CheckParsedLine(line, sp,
                  digest_file(FileAt(sp.file_name, at_eof),
                              sp.file_name = NameStdin, b, ign_missing,
                              sp.digest_length, has_assert),
                  d, g, stdin_manifest, ign_missing, st_only, qt)

\* The body of the do-while loop of digest_check for one line read by
\* getline (its trailing newline already removed).
CheckLineBody(line, d, b, g, stdin_manifest, at_eof, ign_missing, st_only, qt, has_assert) ==
  CheckSplitLine(line, split_3(line, Len(line), b, g), d, b, g, stdin_manifest,
                 at_eof, ign_missing, st_only, qt, has_assert)

\* A variant of the verdict that does not ask for a matched checksum.
Verdict_NoMatchNeeded(d, strict_flag) ==
  /\ d.properly_formatted_lines
  /\ d.n_mismatched_checksums = 0
  /\ d.n_open_or_read_failures = 0
  /\ (~strict_flag \/ d.n_improperly_formatted_lines = 0)

\* The value digest_check returns after the stream was read to its end and
\* closed.
Verdict(d, strict_flag) ==
  /\ d.properly_formatted_lines
  /\ d.matched_checksums
  /\ d.n_mismatched_checksums = 0
  /\ d.n_open_or_read_failures = 0
  /\ (~strict_flag \/ d.n_improperly_formatted_lines = 0)

\* ------------------------------------------------------------------------
\* Manifest lines of the model
\* ------------------------------------------------------------------------

DefaultOut(b, tag) ==
  [prefix_tag |-> tag, delim |-> NL,
   digest_length |-> DIGEST_BITS(b), digest_hex_bytes |-> DIGEST_BITS(b) \div 4]

\* A line as this program writes it in compute mode (untagged, GNU style).
GnuLine(name, content, binary, b) ==
  print_digest(name, binary, DigestOf(content, DIGEST_BITS(b) \div 8), b,
               DefaultOut(b, FALSE))

\* A line as this program writes it with --tag.
TaggedLine(name, content, b) ==
  print_digest(name, 1, DigestOf(content, DIGEST_BITS(b) \div 8), b,
               DefaultOut(b, TRUE))

\* A line as the BSD tools write it in reversed mode: digest, one blank, name.
BsdReversedLine(name, content, b) ==
  Hex02x(DigestOf(content, DIGEST_BITS(b) \div 8), DIGEST_BITS(b) \div 8)
  \o << " " >> \o name

UpperCased(line) == [k \in 1..Len(line) |-> toupper(line[k])]

\* Whether position K of a manifest line of style STYLE lies in its digest:
\* the digest is the run of hex digits that ends a tagged line and that
\* starts a line of the other styles.
InDigest(text, style, k) ==
  IF style = "tagged"
  THEN \A j \in k..Len(text) : isxdigit(text[j])
  ELSE \A j \in 1..k : isxdigit(text[j])

\* The line TEXT with the letters of its digest in another case: all of
\* them in upper case (MODE "upper"), or every second digit of the digest
\* (MODE "alternate").  Nothing outside the digest is changed.
Recase(text, style, mode) ==
  [k \in 1..Len(text) |->
     IF InDigest(text, style, k) /\ (mode = "upper" \/ k % 2 = 0)
     THEN toupper(text[k]) ELSE text[k]]

\* The number of lines the model chooses manifest lines from, and line K of
\* them for build B.
NLines == 10

LineTable(b, k) ==
  CASE k = 1 -> [style |-> "gnu", name |-> NameF, text |-> GnuLine(NameF, 1, 0, b)]
    [] k = 2 -> [style |-> "gnu", name |-> NameF, text |-> GnuLine(NameF, 2, 1, b)]
    [] k = 3 -> [style |-> "gnu", name |-> NameMissing,
                 text |-> GnuLine(NameMissing, 1, 0, b)]
    [] k = 4 -> [style |-> "gnu", name |-> NameNoPerm,
                 text |-> GnuLine(NameNoPerm, 1, 0, b)]
    [] k = 5 -> [style |-> "bsd_reversed", name |-> NameG,
                 text |-> BsdReversedLine(NameG, 2, b)]
    [] k = 6 -> [style |-> "tagged", name |-> NameF, text |-> TaggedLine(NameF, 1, b)]
    [] k = 7 -> [style |-> "comment", name |-> << >>, text |-> << "#", "x" >>]
    [] k = 8 -> [style |-> "garbage", name |-> << >>, text |-> << "b", "a", "d" >>]
    [] k = 9 -> [style |-> "gnu", name |-> NameStdin,
                 text |-> GnuLine(NameStdin, 2, 0, b)]
    [] k = 10 -> [style |-> "gnu", name |-> NameBadRead,
                  text |-> GnuLine(NameBadRead, 1, 1, b)]
    [] k = 11 -> [style |-> "gnu", name |-> NameF,
                  text |-> Hex02x(DigestOf(1, 15), 15) \o << " ", " " >> \o NameF]
    [] k = 12 -> [style |-> "gnu", name |-> NameF,
                  text |-> Recase(GnuLine(NameF, 1, 0, b), "gnu", "upper")]
    [] k = 13 -> [style |-> "gnu", name |-> NameF,
                  text |-> Recase(GnuLine(NameF, 2, 1, b), "gnu", "alternate")]
    [] k = 14 -> [style |-> "tagged", name |-> NameF,
                  text |-> Recase(TaggedLine(NameF, 1, b), "tagged", "upper")]

\* A build that reads the digest length off the line is also given line 11,
\* whose digest has 30 hex digits: a length split_3 accepts there and no
\* SHA-3 variant has.  (To a build with one digest length it is one more
\* line that is too short.)
NLinesOf(b) == IF HASH_HAVE_VARIABLE_SIZE(b) THEN NLines + 1 ELSE NLines

\* Lines 12 to 14 are lines 1, 2 and 6 with the digest in another case;
\* CaseLines are the lines of the manifests that hold both spellings.
CaseLines == {1, 2, 6, 12, 13, 14}

CheckBuilds == {"MD5"}

\* ------------------------------------------------------------------------
\* Check mode (main and digest_check)
\* ------------------------------------------------------------------------

Globals ==
  [bsd_reversed |-> bsd_reversed, digest_length |-> digest_length,
   digest_hex_bytes |-> digest_hex_bytes,
   min_digest_line_length |-> min_digest_line_length]

CheckInit ==
  /\ have_read_stdin = FALSE
  /\ argv_left = 0
  /\ is_stdin = FALSE
  /\ manifest = << >>
  /\ manifest_io = "ok"
  /\ line_number = 0
  /\ dc = DcInit
  /\ out = << >>
  /\ hist = << >>
  /\ stdin_eof = FALSE
  /\ runs = << >>

\* case 'c', the end of the option loop, and the settings main derives from
\* the options before it starts to work.
StartCheck ==
  /\ pc = "getopt"
  /\ do_check' = TRUE
  /\ min_digest_line_length' = MIN_DIGEST_LINE_LENGTH(build)
  /\ digest_hex_bytes' =
       IF HASH_HAVE_VARIABLE_SIZE(build) THEN digest_length \div 4
       ELSE DIGEST_BITS(build) \div 4
  /\ \E n \in 1..MaxManifestOperands : argv_left' = n
  /\ pc' = "check_loop"
  /\ UNCHANGED << build, status_only, warn, ignore_missing, quiet, strict,
                  bsd_reversed, digest_length, prefix_tag, delim,
                  have_read_stdin, is_stdin, manifest, manifest_io, line_number,
                  dc, out, hist, stdin_eof, runs, ok, exit_status >>
  /\ UNCHANGED << walkVars, roundVars >>

\* digest_check returns RET to the loop of main: ok &= digest_check (argv[i]).
ReturnFromCheck(ret, d, o, h) ==
  /\ runs' = Append(runs, [ret |-> ret, dc |-> d, out |-> o, hist |-> h])
  /\ ok' = (ok /\ ret)
  /\ argv_left' = argv_left - 1
  /\ pc' = "check_loop"

\* A variant of the start of digest_check that forgets the style that the
\* manifests before this one have set.
DigestCheckOpen_ResetsStyle ==
  /\ pc = "check_loop" /\ argv_left > 0
  /\ IF runs = << >>
     THEN /\ is_stdin' \in (IF argv_left = 1 THEN BOOLEAN ELSE {FALSE})
          /\ manifest_io' \in (IF is_stdin' THEN {"ok", "read"}
                               ELSE {"ok", "fopen", "read", "fclose"})
     ELSE UNCHANGED << is_stdin, manifest_io >>
  /\ have_read_stdin' = (have_read_stdin \/ is_stdin')
  /\ line_number' = 0
  /\ dc' = DcInit
  /\ out' = << >>
  /\ hist' = << >>
  /\ IF manifest_io' = "fopen"
     THEN ReturnFromCheck(FALSE, DcInit, << >>, << >>)
     ELSE /\ pc' = "lines"
          /\ UNCHANGED << runs, ok, argv_left >>
  /\ bsd_reversed' = -1
  /\ UNCHANGED << build, optVars, digest_length, digest_hex_bytes,
                  min_digest_line_length, prefix_tag, delim, manifest,
                  stdin_eof, exit_status >>
  /\ UNCHANGED << walkVars, roundVars >>

\* digest_check up to its loop: the manifest is opened.  The first call
\* fixes what the manifest is (standard input or a file, and how its stream
\* behaves); a later call names the same, unchanged manifest.
DigestCheckOpen ==
  /\ pc = "check_loop" /\ argv_left > 0
  /\ IF runs = << >>
     THEN /\ is_stdin' \in (IF argv_left = 1 THEN BOOLEAN ELSE {FALSE})
          /\ manifest_io' \in (IF is_stdin' THEN {"ok", "read"}
                               ELSE {"ok", "fopen", "read", "fclose"})
     ELSE UNCHANGED << is_stdin, manifest_io >>
  /\ have_read_stdin' = (have_read_stdin \/ is_stdin')
  /\ line_number' = 0
  /\ dc' = DcInit
  /\ out' = << >>
  /\ hist' = << >>
  /\ IF manifest_io' = "fopen"
     THEN ReturnFromCheck(FALSE, DcInit, << >>, << >>)
     ELSE /\ pc' = "lines"
          /\ UNCHANGED << runs, ok, argv_left >>
  /\ UNCHANGED << build, optVars, codecVars, manifest, stdin_eof, exit_status >>
  /\ UNCHANGED << walkVars, roundVars >>

\* One iteration of the do-while loop: getline returns line number k of the
\* manifest and the line is handled.
CheckLine(k) ==
  /\ pc = "lines"
  /\ line_number < Len(manifest) \/ (runs = << >> /\ line_number < MaxLines)
  /\ IF line_number < Len(manifest)
     THEN k = manifest[line_number + 1] /\ UNCHANGED manifest
     ELSE manifest' = Append(manifest, k)
  /\ \E ln \in {LineTable(build, k)} :
     \E has_assert \in BOOLEAN :
     \E r \in {CheckLineBody(ln.text, dc, build, Globals, is_stdin, stdin_eof,
                              ignore_missing, status_only, quiet, has_assert)} :
        /\ line_number' = line_number + 1
        /\ dc' = r.dc
        /\ out' = out \o r.printed
        /\ bsd_reversed' = r.g.bsd_reversed
        /\ digest_length' = r.g.digest_length
        /\ digest_hex_bytes' = r.g.digest_hex_bytes
        /\ have_read_stdin' = (have_read_stdin \/ r.read_stdin)
        /\ stdin_eof' = (stdin_eof \/ r.read_stdin)
        /\ hist' = Append(hist,
                     [kind |-> r.outcome, line |-> k, file_name |-> r.file_name,
                      parsed |-> r.parsed, printed |-> r.printed,
                      before |-> dc, after |-> r.dc, latch |-> bsd_reversed,
                      style |-> ln.style, written |-> ln.name])
        /\ pc' = IF r.outcome = "abort" THEN "aborted" ELSE "lines"
  /\ UNCHANGED << build, optVars, min_digest_line_length, prefix_tag, delim,
                  argv_left, is_stdin, manifest_io, runs, ok, exit_status >>
  /\ UNCHANGED << walkVars, roundVars >>

\* getline returns no line (end of input or a read error): the loop ends and
\* digest_check returns.
CheckEnd ==
  /\ pc = "lines"
  /\ runs = << >> \/ line_number = Len(manifest)
  /\ ReturnFromCheck(IF manifest_io \in {"read", "fclose"} THEN FALSE
                     ELSE Verdict(dc, strict), dc, out, hist)
  /\ UNCHANGED << build, optVars, codecVars, have_read_stdin, is_stdin, manifest,
                  manifest_io, line_number, dc, out, hist, stdin_eof,
                  exit_status >>
  /\ UNCHANGED << walkVars, roundVars >>

\* return ok ? EXIT_SUCCESS : EXIT_FAILURE at the end of check mode.
CheckExit ==
  /\ pc = "check_loop" /\ argv_left = 0
  /\ exit_status' = (IF ok THEN 0 ELSE 1)
  /\ pc' = "exit"
  /\ UNCHANGED << build, optVars, codecVars, checkVars, ok >>
  /\ UNCHANGED << walkVars, roundVars >>

\* ------------------------------------------------------------------------
\* The file system that compute mode walks
\* ------------------------------------------------------------------------

NULLP == << >>

DirNode(dev, ino, opendir, fstat, readdir) ==
  [type |-> "dir", st_dev |-> dev, st_ino |-> ino, opendir |-> opendir,
   fstat |-> fstat, readdir |-> readdir]

FileNode(open, read, content) ==
  [type |-> "file", open |-> open, read |-> read, content |-> content]

\* The inodes of the model.  ROOT is the working directory.  D1 and D2 have
\* inode numbers that dev_ino_hash sends to the same bucket, D1 and D3 have
\* the same inode number on different devices.  DX cannot be opened, DS
\* cannot be fstat'ed, DR fails while it is read; FX cannot be opened and FR
\* fails while it is read.
Node ==
  [ROOT |-> DirNode(1, 1, "ok", "ok", "ok"),
   D1 |-> DirNode(1, 2, "ok", "ok", "ok"),
   D2 |-> DirNode(1, 34, "ok", "ok", "ok"),
   D3 |-> DirNode(2, 2, "ok", "ok", "ok"),
   DX |-> DirNode(1, 5, "EACCES", "ok", "ok"),
   DS |-> DirNode(1, 6, "ok", "EIO", "ok"),
   DR |-> DirNode(1, 7, "ok", "ok", "EIO"),
   F0 |-> FileNode("ok", "ok", 1),
   F1 |-> FileNode("ok", "ok", 2),
   F2 |-> FileNode("ok", "ok", 3),
   F3 |-> FileNode("ok", "ok", 4),
   FX |-> FileNode("EACCES", "ok", 0),
   FR |-> FileNode("ok", "EIO", 0)]

DirNodes == {n \in DOMAIN Node : Node[n].type = "dir"}
FileNodes == {n \in DOMAIN Node : Node[n].type = "file"}

\* A directory entry as readdir returns it: d_name, d_type, and the inode
\* that stat reaches through it ("" for a dangling symlink or an entry that
\* is gone when stat is called).
Ent(name, d_type, node) == [name |-> name, d_type |-> d_type, node |-> node]

NoEntries == [n \in DirNodes |-> {}]

RootDir ==
  {Ent(<< "d" >>, "DT_DIR", "D1"), Ent(<< "e" >>, "DT_DIR", "D3"),
   Ent(<< "f" >>, "DT_REG", "F0")}

\* d holds a file, a hidden file and a subdirectory with one file.
TreeFs ==
  [name |-> "tree", getcwd |-> "ok",
   dir |-> [NoEntries EXCEPT
     !["ROOT"] = RootDir,
     !["D1"] = {Ent(<< "g" >>, "DT_REG", "F1"), Ent(<< "a" >>, "DT_DIR", "D2"),
                Ent(<< ".", "h" >>, "DT_REG", "F3")},
     !["D2"] = {Ent(<< "k" >>, "DT_REG", "F2")}]]

\* d/a holds two symlinks to d, and e holds a symlink to itself.
CycleFs ==
  [name |-> "cycle", getcwd |-> "ok",
   dir |-> [NoEntries EXCEPT
     !["ROOT"] = RootDir,
     !["D1"] = {Ent(<< "g" >>, "DT_REG", "F1"), Ent(<< "a" >>, "DT_DIR", "D2")},
     !["D2"] = {Ent(<< "k" >>, "DT_REG", "F2"), Ent(<< "u" >>, "DT_LNK", "D1"),
                Ent(<< "v" >>, "DT_LNK", "D1")},
     !["D3"] = {Ent(<< "s" >>, "DT_LNK", "D3")}]]

\* d holds a subdirectory and a symlink to that subdirectory: no cycle.
SiblingFs ==
  [name |-> "sibling", getcwd |-> "ok",
   dir |-> [NoEntries EXCEPT
     !["ROOT"] = RootDir,
     !["D1"] = {Ent(<< "a" >>, "DT_DIR", "D2"), Ent(<< "b" >>, "DT_LNK", "D2")},
     !["D2"] = {Ent(<< "k" >>, "DT_REG", "F2")}]]

\* d holds what cannot be read: an unreadable file, a dangling symlink, and
\* a directory whose readdir fails and that holds a file whose read fails;
\* e holds a directory that cannot be fstat'ed, a directory that cannot be
\* opened, and an entry that is gone when stat is called.
FailFs ==
  [name |-> "fail", getcwd |-> "ok",
   dir |-> [NoEntries EXCEPT
     !["ROOT"] = RootDir,
     !["D1"] = {Ent(<< "x" >>, "DT_REG", "FX"), Ent(<< "l" >>, "DT_LNK", ""),
                Ent(<< "a" >>, "DT_DIR", "DR")},
     !["DR"] = {Ent(<< "r" >>, "DT_REG", "FR")},
     !["D3"] = {Ent(<< "y" >>, "DT_DIR", "DS"), Ent(<< "z" >>, "DT_DIR", "DX"),
                Ent(<< "w" >>, "DT_REG", "")}]]

\* The tree again, in a process whose working directory getcwd cannot name.
LostCwdFs == [TreeFs EXCEPT !.name = "lostcwd", !.getcwd = "ENOENT"]

FileSystems == {TreeFs, CycleFs, SiblingFs, FailFs, LostCwdFs}

\* The operands a run can be given: two directories, a file, and a name
\* that does not exist.
OperandNames == {<< "d" >>, << "e" >>, << "f" >>, << "q" >>}

\* The operands of a run over the file system F: in the tree with cycles the
\* runs are started on its two directories, whose subtrees hold the cycles.
OperandsOf(f) == IF f.name = "cycle" THEN {<< "d" >>, << "e" >>} ELSE OperandNames

RECURSIVE WalkPath(_, _)
\* The inode that resolving PATH from NODE reaches, symlinks followed, or ""
\* if a component is missing or is not a directory.
WalkPath(node, path) ==
  IF path = << >> THEN node
  ELSE IF node = "" THEN ""
  ELSE IF Node[node].type # "dir" THEN ""
  ELSE LET es == {e \in fs.dir[node] : e.name = Head(path)}
       IN IF es = {} THEN ""
          ELSE WalkPath((CHOOSE e \in es : TRUE).node, Tail(path))

\* stat (path, &st) == 0, and the inode it describes.
stat(path) == WalkPath("ROOT", path)

\* A variant of the test for a symlink in which lstat never reports one.
lstat_S_ISLNK_Never(path) == FALSE

\* lstat (path, &st) == 0 && S_ISLNK (st.st_mode)
lstat_S_ISLNK(path) ==
  /\ path # << >>
  /\ LET parent == WalkPath("ROOT", SubSeq(path, 1, Len(path) - 1))
     IN /\ parent # ""
        /\ Node[parent].type = "dir"
        /\ \E e \in fs.dir[parent] : e.name = path[Len(path)] /\ e.d_type = "DT_LNK"

\* What fopen and the read of PATH yield ("-" at top level is not looked
\* up: it is standard input).
WalkFile(path) ==
  LET n == stat(path)
  IN IF path = << NameStdin >> THEN FileNode("ok", "ok", 5)
     ELSE IF n = "" THEN FileNode("ENOENT", "ok", 0)
     ELSE IF Node[n].type = "dir" THEN FileNode("ok", "EISDIR", 0)
     ELSE Node[n]

\* ------------------------------------------------------------------------
\* The cycle guard: active_dir_set and dev_ino_obstack
\* ------------------------------------------------------------------------

INITIAL_TABLE_SIZE == 32

DevIno(dev, ino) == [st_dev |-> dev, st_ino |-> ino]

\* dev_ino_hash (x, table_size)
dev_ino_hash(x, table_size) == x.st_ino % table_size

\* A variant of dev_ino_compare that looks at the inode number only.
dev_ino_compare_InodeOnly(a, b) == a.st_ino = b.st_ino

\* dev_ino_compare (x, y): SAME_INODE (*a, *b)
dev_ino_compare(a, b) == a.st_ino = b.st_ino /\ a.st_dev = b.st_dev

\* hash_initialize (INITIAL_TABLE_SIZE, NULL, dev_ino_hash, dev_ino_compare,
\* dev_ino_free): a table of empty buckets.
hash_initialize(candidate) ==
  [n_buckets |-> candidate, bucket |-> [b \in 0..(candidate - 1) |-> << >>]]

\* The entries of a bucket that the comparator takes as equal to ENT.
Matching(table, ent) ==
  LET b == table.bucket[dev_ino_hash(ent, table.n_buckets)]
  IN {k \in 1..Len(b) : dev_ino_compare(b[k], ent)}

\* hash_insert (table, ent): the matching entry if there is one, else ENT
\* itself after it was put into its bucket.
hash_insert(table, ent) ==
  LET h == dev_ino_hash(ent, table.n_buckets)
  IN IF Matching(table, ent) # {}
     THEN [table |-> table, inserted |-> FALSE]
     ELSE [table |-> [table EXCEPT !.bucket[h] = << ent >> \o @],
           inserted |-> TRUE]

\* hash_delete (table, ent): the matching entry is unlinked from its bucket.
hash_delete(table, ent) ==
  LET h == dev_ino_hash(ent, table.n_buckets)
      b == table.bucket[h]
      m == Matching(table, ent)
      k == SetMin(m)
  IN IF m = {}
     THEN [table |-> table, found |-> FALSE]
     ELSE [table |-> [table EXCEPT !.bucket[h] =
                        SubSeq(b, 1, k - 1) \o SubSeq(b, k + 1, Len(b))],
           found |-> TRUE]

\* The entries of the table, as a set and as a count.
hash_entries(table) ==
  UNION {{table.bucket[b][k] : k \in 1..Len(table.bucket[b])} :
           b \in DOMAIN table.bucket}

RECURSIVE SumLen(_, _)
SumLen(table, b) ==
  IF b = table.n_buckets THEN 0 ELSE Len(table.bucket[b]) + SumLen(table, b + 1)

hash_get_n_entries(table) == SumLen(table, 0)

\* ------------------------------------------------------------------------
\* Compute mode: inventory, pending queue and directory scan
\* ------------------------------------------------------------------------

\* LOOP_DETECT: active_dir_set != NULL.  The variable holds no table (NULL)
\* or one table.
LOOP_DETECT(w) == w.active_dir_set # << >>

\* An inventory slot that xnmalloc returned and nothing has written yet.
UninitSlot == [name |-> NULLP, filetype |-> "unknown", stat_ok |-> FALSE,
               mem |-> "uninit"]

\* What an unwritten slot can look like to the code that reads it: any file
\* type, and a name pointer that points nowhere or is null.
WildName == << << "?" >> >>
GarbageTypes == {"unknown", "regular_file", "directory", "arg_directory"}
Garbage == [filetype : GarbageTypes, name : {WildName, NULLP}]

\* The slots of cwd_file that a run with at most MaxOperands operands can
\* touch.
Slots == 0..MaxOperands

\* The state the functions of compute mode work on.
W ==
  [cwd_file |-> cwd_file, cwd_n_used |-> cwd_n_used,
   pending_dirs |-> pending_dirs, active_dir_set |-> active_dir_set,
   dev_ino_obstack |-> dev_ino_obstack, stack |-> stack, err |-> err,
   out |-> out, have_read_stdin |-> have_read_stdin,
   last_visit |-> last_visit, ub |-> FALSE, abort |-> FALSE]

\* error (0, errnum, ...): one diagnostic on stderr.
error(w, msg, name) == [w EXCEPT !.err = Append(@, [msg |-> msg, name |-> name])]

\* free_ent (f).  Freeing a name that was freed before, or a pointer that
\* was never set, is undefined.
free_ent(w, i) ==
  LET f == w.cwd_file[i]
  IN IF f.mem = "uninit" \/ (f.mem = "freed" /\ f.name # NULLP)
     THEN [w EXCEPT !.ub = TRUE]
     ELSE [w EXCEPT !.cwd_file[i].mem = "freed"]

RECURSIVE FreeRange(_, _, _)
FreeRange(w, i, n) == IF i >= n THEN w ELSE FreeRange(free_ent(w, i), i + 1, n)

\* A variant of clear_files that frees the entries and leaves cwd_n_used as
\* it is.
clear_files_KeepsCount(w) == FreeRange(w, 0, w.cwd_n_used)

\* clear_files ()
clear_files(w) == [FreeRange(w, 0, w.cwd_n_used) EXCEPT !.cwd_n_used = 0]

\* file_ignored (file), with no -I, -B or hide patterns given.
file_ignored(file, mode) ==
  /\ mode # "IGNORE_MINIMAL"
  /\ At(file, 0) = "."
  /\ (mode = "IGNORE_DEFAULT"
      \/ At(file, 1 + (IF At(file, 1) = "." THEN 1 ELSE 0)) = NUL)

\* attach (dest, dirname, name, false) and file_name_concat (dirname, name):
\* a path is the sequence of its components.
attach(dirname, name) == dirname \o name

\* is_directory (f)
is_directory(f) == f.filetype = "directory" \/ f.filetype = "arg_directory"

\* is_dot_or_dotdot (dirname, st): the working directory is the only one of
\* the two that a path of the model can reach.
is_dot_or_dotdot(name) == stat(name) = "ROOT"

\* queue_directory (name, realname, command_line_arg)
queue_directory(w, name, realname, command_line_arg) ==
  [w EXCEPT !.pending_dirs =
     << [name |-> name, realname |-> realname,
         command_line_arg |-> command_line_arg] >> \o @]

\* gobble_file (name, type, inode, command_line_arg, dirname)
gobble_file(w, name, type, command_line_arg, dirname, rec, mode) ==
  LET n == w.cwd_n_used
      zeroed == [name |-> NULLP, filetype |-> type, stat_ok |-> FALSE,
                 mem |-> "set"]
      w0 == [w EXCEPT !.cwd_file[n] = zeroed]
      full_name == IF dirname = << >> THEN << name >> ELSE attach(dirname, << name >>)
      node == stat(full_name)
      insert(f) == [w0 EXCEPT !.cwd_file[n] = f, !.cwd_n_used = n + 1]
  IN IF ~command_line_arg /\ file_ignored(name, mode) THEN w
     ELSE IF name = NameStdin /\ dirname = << >>
     THEN insert([zeroed EXCEPT !.name = << NameStdin >>,
                                !.filetype = "regular_file", !.stat_ok = TRUE])
     ELSE IF node = ""
     THEN IF lstat_S_ISLNK(full_name)
          THEN error(w0, "bad symlink", full_name)
          ELSE IF ~command_line_arg
               THEN error(insert([zeroed EXCEPT !.name = full_name]),
                          "cannot access", full_name)
               ELSE error(w0, "cannot access", full_name)
     ELSE IF Node[node].type = "dir"
     THEN IF ~rec
          THEN error(w0, "EISDIR", full_name)
          ELSE insert([zeroed EXCEPT !.name = full_name, !.stat_ok = TRUE,
                         !.filetype = IF command_line_arg THEN "arg_directory"
                                      ELSE "directory"])
     ELSE insert([zeroed EXCEPT !.name = full_name, !.stat_ok = TRUE,
                                !.filetype = "regular_file"])

RECURSIVE ExtractLoop(_, _, _, _, _)
\* The loop of extract_dirs_from_files, at index i.  GARBAGE is what a slot
\* that nothing has written shows.  With a directory name to prepend, a
\* null name ends the run in is_dot_or_dotdot (stat fails and the function
\* dies); without one it is queued as it is, and an entry of pending_dirs
\* whose name is null is a marker.
ExtractLoop(w, i, dirname, command_line_arg, garbage) ==
  IF i = 0 THEN w
  ELSE
    LET written == w.cwd_file[i].mem # "uninit"
        f == IF written THEN w.cwd_file[i]
             ELSE [UninitSlot EXCEPT !.filetype = garbage.filetype,
                                     !.name = garbage.name]
        wu == IF written THEN w ELSE [w EXCEPT !.ub = TRUE]
        qname == IF dirname = NULLP THEN f.name ELSE attach(dirname, f.name)
        wq == queue_directory(wu, qname, NULLP, command_line_arg)
        wf == IF f.filetype = "arg_directory"
              THEN [free_ent(wq, i) EXCEPT !.cwd_n_used = @ - 1]
              ELSE wq
    IN IF is_directory(f) /\ dirname # NULLP /\ f.name = NULLP
       THEN [wu EXCEPT !.abort = TRUE]
       ELSE IF is_directory(f) /\ (dirname = NULLP \/ ~is_dot_or_dotdot(f.name))
       THEN ExtractLoop(wf, i - 1, dirname, command_line_arg, garbage)
       ELSE ExtractLoop(w, i - 1, dirname, command_line_arg, garbage)

\* A variant of extract_dirs_from_files that queues no marker.
extract_dirs_from_files_NoMarker(w, dirname, command_line_arg, garbage) ==
  ExtractLoop(w, w.cwd_n_used, dirname, command_line_arg, garbage)

\* extract_dirs_from_files (dirname, command_line_arg)
extract_dirs_from_files(w, dirname, command_line_arg, garbage) ==
  LET wm == IF dirname # NULLP /\ LOOP_DETECT(w)
            THEN queue_directory(w, NULLP, dirname, FALSE)
            ELSE w
  IN ExtractLoop(wm, wm.cwd_n_used, dirname, command_line_arg, garbage)

\* A variant of dev_ino_push that leaves the stack as it is.
dev_ino_push_Nothing(w, dev, ino) == w

\* dev_ino_push (dev, ino)
dev_ino_push(w, dev, ino) ==
  [w EXCEPT !.dev_ino_obstack = Append(@, DevIno(dev, ino))]

\* visit_dir (device, inode)
visit_dir(w, device, inode) ==
  LET ent == DevIno(device, inode)
      r == hash_insert(w.active_dir_set[1], ent)
      found_match == ~r.inserted
  IN [w |-> [w EXCEPT !.active_dir_set = << r.table >>,
                      !.last_visit = [device |-> device, inode |-> inode,
                                      found_match |-> found_match,
                                      before |-> w.active_dir_set[1],
                                      after |-> r.table,
                                      calls |-> w.last_visit.calls + 1]],
      found_match |-> found_match]

\* A call in progress below main.
DcfFrame(i) == [fn |-> "digest_current_files", i |-> i]
DirFrame(dirname, node) ==
  [fn |-> "digest_directory", dirname |-> dirname, node |-> node,
   dirp |-> fs.dir[node]]

\* A variant of digest_directory that scans a directory whether or not
\* visit_dir found its key.
digest_directory_begin_NoCycleCheck(w, dirname, ign_missing) ==
  LET node == stat(dirname)
      errno == IF node = "" THEN "ENOENT"
               ELSE IF Node[node].type # "dir" THEN "ENOTDIR"
               ELSE Node[node].opendir
      v == visit_dir(w, Node[node].st_dev, Node[node].st_ino)
      pushed == dev_ino_push(v.w, Node[node].st_dev, Node[node].st_ino)
      enter(x) == [clear_files(x) EXCEPT
                     !.stack = Append(x.stack, DirFrame(dirname, node))]
  IN IF errno # "ok"
     THEN IF ign_missing /\ errno = "ENOENT" THEN w
          ELSE error(w, "cannot open directory", dirname)
     ELSE IF ~LOOP_DETECT(w) THEN enter(w)
     ELSE IF Node[node].fstat # "ok"
     THEN error(w, "cannot determine device and inode", dirname)
     ELSE enter(pushed)

\* digest_directory (dirname, ...) up to its readdir loop.  The call returns
\* at once (no frame is pushed) if the directory cannot be opened or
\* fstat'ed or is already in the set of active directories.
digest_directory_begin(w, dirname, ign_missing) ==
  LET node == stat(dirname)
      errno == IF node = "" THEN "ENOENT"
               ELSE IF Node[node].type # "dir" THEN "ENOTDIR"
               ELSE Node[node].opendir
      v == visit_dir(w, Node[node].st_dev, Node[node].st_ino)
      pushed == dev_ino_push(v.w, Node[node].st_dev, Node[node].st_ino)
      enter(x) == [clear_files(x) EXCEPT
                     !.stack = Append(x.stack, DirFrame(dirname, node))]
  IN IF errno # "ok"
     THEN IF ign_missing /\ errno = "ENOENT" THEN w
          ELSE error(w, "cannot open directory", dirname)
     ELSE IF ~LOOP_DETECT(w) THEN enter(w)
     ELSE IF Node[node].fstat # "ok"
     THEN error(w, "cannot determine device and inode", dirname)
     ELSE IF v.found_match
     THEN error(v.w, "not listing already-listed directory", dirname)
     ELSE enter(pushed)

\* The caller of a digest_directory that has returned goes on: the loop of
\* digest_current_files steps to its next index.
ReturnToCaller(stk) ==
  IF stk # << >> /\ stk[Len(stk)].fn = "digest_current_files"
  THEN [stk EXCEPT ![Len(stk)].i = @ + 1]
  ELSE stk

\* A variant of the end of digest_directory that returns without calling
\* extract_dirs_from_files, and so without queueing the marker.
digest_directory_end_NoExtract(w, rec, garbage) ==
  LET caller == ReturnToCaller(SubSeq(w.stack, 1, Len(w.stack) - 1))
  IN [w EXCEPT !.stack = IF w.cwd_n_used # 0 THEN Append(caller, DcfFrame(0))
                         ELSE caller]

\* The end of digest_directory: closedir, the marker, a last
\* digest_current_files if the inventory is not empty (the last thing the
\* function does), and the return.
digest_directory_end(w, rec, garbage) ==
  LET top == w.stack[Len(w.stack)]
      wx == IF rec THEN extract_dirs_from_files(w, top.dirname, FALSE, garbage)
            ELSE w
      caller == ReturnToCaller(SubSeq(w.stack, 1, Len(w.stack) - 1))
  IN [wx EXCEPT !.stack = IF wx.cwd_n_used # 0 THEN Append(caller, DcfFrame(0))
                          ELSE caller]

\* ------------------------------------------------------------------------
\* A line written by print_digest and read back by split_3
\* ------------------------------------------------------------------------

\* The characters of the file names that are formatted: a plain one, the two
\* that make print_digest escape, and those that the line syntax uses.
NameAlphabet == {"a", "n", BS, NL, " ", "*", ")"}

FileNames == UNION {[1..k -> NameAlphabet] : k \in 1..MaxNameLen}

\* The digest lengths, in bits, that the writer can be asked for.
DigestLengths(b) ==
  CASE b = "SHA3" -> {224, 256, 384, 512}
    [] b = "BLAKE2b" -> {8, 256, 512}
    [] OTHER -> {DIGEST_BITS(b)}

NoParse == Split3Result(FALSE, << >>, -1, << >>, -1, 0, 0)

\* ------------------------------------------------------------------------
\* The SHA-3 sponge (src/gl/lib/sha3.c)
\* ------------------------------------------------------------------------

\* The block sizes of the model, in bytes.  (The SHA3_*_BLOCK_SIZE of the
\* source are 144, 136, 104 and 72; sha3_update treats the size as a
\* parameter, and the model draws it from small values.)
MaxBlock == 3
BlockSizes == 2..MaxBlock

\* The longest stream hashed, and the most sha3_*_update calls made on it.
MaxStream == 6
MaxCalls == 4
MaxArrivals == 3

\* Byte K of the stream that is hashed: every position has its own value,
\* and none is a value that padding or an uninitialised buffer holds.
Data(k) == 16 + k

\* What the bytes of the block buffer may hold before anything is copied
\* into them (sha3_*_init clears the context only up to the buffer).
GarbageBytes == {0, 255}

NoCtx == [block_size |-> 0, absorbed |-> << >>, index |-> 0, block |-> << >>]

\* memcpy (dst + off, src, n) on a buffer.
memcpy(dst, off, src, n) ==
  [k \in 1..Len(dst) |-> IF k > off /\ k <= off + n THEN src[k - off] ELSE dst[k]]

\* sha3_absorb: the block is xored into the state, which is then permuted.
\* The state is kept as the sequence of the blocks absorbed so far.
sha3_absorb(absorbed, block_size, data) ==
  Append(absorbed, SubSeq(data, 1, block_size))

\* The for loop of sha3_update: whole blocks are absorbed straight from DATA.
RECURSIVE AbsorbWhole(_, _, _)
AbsorbWhole(absorbed, block_size, data) ==
  IF Len(data) >= block_size
  THEN AbsorbWhole(sha3_absorb(absorbed, block_size, data), block_size,
                   SubSeq(data, block_size + 1, Len(data)))
  ELSE [absorbed |-> absorbed, data |-> data]

\* A variant of sha3_update that absorbs the buffered block but forgets that
\* it has consumed the bytes that completed it.
sha3_update_NoAdvance(absorbed, block_size, block, pos, length, data) ==
  IF pos # 0 /\ length < block_size - pos
  THEN [absorbed |-> absorbed, block |-> memcpy(block, pos, data, length),
        pos |-> pos + length]
  ELSE LET left == IF pos # 0 THEN block_size - pos ELSE 0
           filled == memcpy(block, pos, data, left)
           first == IF pos # 0 THEN sha3_absorb(absorbed, block_size, filled)
                    ELSE absorbed
           rest == AbsorbWhole(first, block_size, SubSeq(data, 1, length - left))
       IN [absorbed |-> rest.absorbed,
           block |-> memcpy(filled, 0, rest.data, Len(rest.data)),
           pos |-> Len(rest.data)]

\* sha3_update: LENGTH bytes of DATA are added to a sponge whose buffer
\* holds POS bytes; returns the new state, buffer and position.
sha3_update(absorbed, block_size, block, pos, length, data) ==
  IF pos # 0 /\ length < block_size - pos
  THEN [absorbed |-> absorbed, block |-> memcpy(block, pos, data, length),
        pos |-> pos + length]
  ELSE LET left == IF pos # 0 THEN block_size - pos ELSE 0
           filled == memcpy(block, pos, data, left)
           first == IF pos # 0 THEN sha3_absorb(absorbed, block_size, filled)
                    ELSE absorbed
           rest == AbsorbWhole(first, block_size, SubSeq(data, left + 1, length))
       IN [absorbed |-> rest.absorbed,
           block |-> memcpy(filled, 0, rest.data, Len(rest.data)),
           pos |-> Len(rest.data)]

\* sha3_pad: the padding byte, zeros, the final bit, and the last absorb.
sha3_pad(absorbed, block_size, block, pos) ==
  LET padded == [k \in 1..block_size |->
                   LET b == IF k <= pos THEN block[k]
                            ELSE IF k = pos + 1 THEN 6 ELSE 0
                   IN IF k = block_size THEN b + 128 ELSE b]
  IN sha3_absorb(absorbed, block_size, padded)

\* The number of bytes handed to sha3_*_update so far.
RECURSIVE Sum(_)
Sum(lens) == IF lens = << >> THEN 0 ELSE lens[1] + Sum(Tail(lens))

\* sha3_*_init: the state and the index are cleared, the buffer is not.
Sha3Init(block_size, g) ==
  /\ pc = "sha3_init"
  /\ ctx' = [block_size |-> block_size, absorbed |-> << >>, index |-> 0,
             block |-> [k \in 1..block_size |-> g]]
  /\ chunks' = << >>
  /\ pc' = "sha3_update"
  /\ UNCHANGED << build, optVars, codecVars, checkVars, ok, exit_status,
                  walkVars, sample, printed_line, parse, signalVars >>

\* sha3_*_update with the next LENGTH bytes of the stream.
Sha3Update(length) ==
  /\ pc = "sha3_update"
  /\ Len(chunks) < MaxCalls
  /\ Sum(chunks) + length <= MaxStream
  /\ \E r \in {sha3_update(ctx.absorbed, ctx.block_size, ctx.block, ctx.index,
                            length, [k \in 1..length |-> Data(Sum(chunks) + k)])} :
       ctx' = [ctx EXCEPT !.absorbed = r.absorbed, !.block = r.block,
                          !.index = r.pos]
  /\ chunks' = Append(chunks, length)
  /\ UNCHANGED << build, pc, optVars, codecVars, checkVars, ok, exit_status,
                  walkVars, sample, printed_line, parse, signalVars >>

\* sha3_*_final up to the point where the digest is read off the state.
Sha3Final ==
  /\ pc = "sha3_update"
  /\ ctx' = [ctx EXCEPT !.absorbed = sha3_pad(ctx.absorbed, ctx.block_size,
                                                ctx.block, ctx.index)]
  /\ pc' = "sha3_final"
  /\ UNCHANGED << build, optVars, codecVars, checkVars, ok, exit_status,
                  walkVars, sample, printed_line, parse, chunks,
                  signalVars >>

\* ------------------------------------------------------------------------
\* process_signals
\* ------------------------------------------------------------------------

\* The numbers of the signals.
Signals == [SIGINT |-> 2, SIGTERM |-> 15, SIGSTOP |-> 19, SIGTSTP |-> 20]

\* The signals whose handler sets interrupt_signal.
FatalSignals == {Signals.SIGINT, Signals.SIGTERM}

\* The handler of a fatal signal: interrupt_signal is the signal received
\* last.
sighandler(sig) ==
  /\ pc \in {"readdir", "process_signals", "fflush", "sigprocmask"}
  /\ Len(SelectSeq(siglog, LAMBDA e : e.ev = "caught")) < MaxArrivals
  /\ interrupt_signal' = sig
  /\ siglog' = Append(siglog, [ev |-> "caught", sig |-> sig,
                               stops |-> stop_signal_count])
  /\ UNCHANGED << build, pc, optVars, codecVars, checkVars, ok, exit_status,
                  walkVars, sample, printed_line, parse, ctx, chunks,
                  stop_signal_count, stdout_buffered >>

\* The handler of SIGTSTP: one more stop signal is pending.
stophandler ==
  /\ pc \in {"readdir", "process_signals", "fflush", "sigprocmask"}
  /\ Len(SelectSeq(siglog, LAMBDA e : e.ev = "caught")) < MaxArrivals
  /\ stop_signal_count' = stop_signal_count + 1
  /\ siglog' = Append(siglog, [ev |-> "caught", sig |-> Signals.SIGTSTP,
                               stops |-> stop_signal_count + 1])
  /\ UNCHANGED << build, pc, optVars, codecVars, checkVars, ok, exit_status,
                  walkVars, sample, printed_line, parse, ctx, chunks,
                  interrupt_signal, stdout_buffered >>

\* One iteration of the readdir loop of digest_directory up to its call of
\* process_signals: the entry may have had a digest line written to stdout.
ReaddirIteration(wrote) ==
  /\ pc = "readdir"
  /\ stdout_buffered' = (stdout_buffered \/ wrote)
  /\ pc' = "process_signals"
  /\ UNCHANGED << build, optVars, codecVars, checkVars, ok, exit_status,
                  walkVars, sample, printed_line, parse, ctx, chunks,
                  interrupt_signal, stop_signal_count, siglog >>

\* while (interrupt_signal != 0 || stop_signal_count != 0): the loop goes
\* on, or process_signals returns.
ProcessSignalsWhile ==
  /\ pc = "process_signals"
  /\ pc' = IF interrupt_signal # 0 \/ stop_signal_count # 0 THEN "fflush"
           ELSE "readdir"
  /\ UNCHANGED << build, optVars, codecVars, checkVars, ok, exit_status,
                  walkVars, sample, printed_line, parse, ctx, chunks,
                  signalVars >>

\* fflush (stdout)
ProcessSignalsFlush ==
  /\ pc = "fflush"
  /\ stdout_buffered' = FALSE
  /\ siglog' = Append(siglog, [ev |-> "fflush", sig |-> 0,
                               stops |-> stop_signal_count])
  /\ pc' = "sigprocmask"
  /\ UNCHANGED << build, optVars, codecVars, checkVars, ok, exit_status,
                  walkVars, sample, printed_line, parse, ctx, chunks,
                  interrupt_signal, stop_signal_count >>

\* A variant of the choice of the signal that raises the fatal signal
\* while stop signals are pending.
raise_pending_FatalFirst(sig, stops) ==
  IF sig = 0
  THEN [stop_signal_count |-> stops - 1, sig |-> Signals.SIGSTOP,
        disposition |-> "unchanged"]
  ELSE [stop_signal_count |-> stops, sig |-> sig, disposition |-> "SIG_DFL"]

\* The choice of the signal to raise, from the values reloaded with the
\* signals blocked: a stop signal is taken off the count and SIGSTOP stands
\* for it; else the fatal signal gets its default disposition.
raise_pending(sig, stops) ==
  IF stops # 0
  THEN [stop_signal_count |-> stops - 1, sig |-> Signals.SIGSTOP,
        disposition |-> "unchanged"]
  ELSE [stop_signal_count |-> stops, sig |-> sig, disposition |-> "SIG_DFL"]

\* The rest of the loop body, with the caught signals blocked: the reload,
\* the raise, and the old mask.  SIGSTOP suspends the process until it is
\* continued; a fatal signal with its default disposition ends it.
ProcessSignalsRaise ==
  /\ pc = "sigprocmask"
  /\ \E r \in {raise_pending(interrupt_signal, stop_signal_count)} :
       /\ stop_signal_count' = r.stop_signal_count
       /\ siglog' = Append(siglog, [ev |-> "raise", sig |-> r.sig,
                                    stops |-> stop_signal_count,
                                    left |-> r.stop_signal_count,
                                    disposition |-> r.disposition,
                                    buffered |-> stdout_buffered])
       /\ pc' = IF r.sig = Signals.SIGSTOP THEN "process_signals" ELSE "killed"
  /\ UNCHANGED << build, optVars, codecVars, checkVars, ok, exit_status,
                  walkVars, sample, printed_line, parse, ctx, chunks,
                  interrupt_signal, stdout_buffered >>

SignalIdle ==
  /\ interrupt_signal = 0
  /\ stop_signal_count = 0
  /\ stdout_buffered = FALSE
  /\ siglog = << >>

RoundIdle ==
  /\ SignalIdle
  /\ sample = [file |-> << >>, binary |-> 0, content |-> 0, bits |-> 0]
  /\ printed_line = << >>
  /\ parse = NoParse
  /\ ctx = NoCtx
  /\ chunks = << >>

\* case TAG_OPTION: prefix_tag = true; binary = 1
OptTag ==
  /\ pc = "getopt"
  /\ prefix_tag' = TRUE
  /\ UNCHANGED << build, pc, optVars, bsd_reversed, digest_length,
                  digest_hex_bytes, min_digest_line_length, delim, checkVars,
                  ok, exit_status, walkVars, roundVars >>

\* The reader starts: main of a check run up to its first digest_check,
\* with no -l given.
StartReader ==
  /\ pc = "getopt"
  /\ min_digest_line_length' = MIN_DIGEST_LINE_LENGTH(build)
  /\ digest_hex_bytes' =
       IF HASH_HAVE_VARIABLE_SIZE(build) THEN digest_length \div 4
       ELSE DIGEST_BITS(build) \div 4
  /\ pc' = "format"
  /\ UNCHANGED << build, optVars, bsd_reversed, digest_length, prefix_tag,
                  delim, checkVars, ok, exit_status, walkVars, roundVars >>

\* The writer prints one line: print_digest (file, binary, bin_buffer) in a
\* run whose digest length is BITS.
Format(file, binary, content, bits) ==
  /\ pc = "format"
  /\ prefix_tag => binary = 1
  /\ sample' = [file |-> file, binary |-> binary, content |-> content,
                bits |-> bits]
  /\ printed_line' = print_digest(file, binary, DigestOf(content, bits \div 8), build,
                          [prefix_tag |-> prefix_tag, delim |-> delim,
                           digest_length |-> bits,
                           digest_hex_bytes |-> bits \div 4])
  /\ pc' = "parse"
  /\ UNCHANGED << build, optVars, codecVars, checkVars, ok, exit_status,
                  walkVars, parse, ctx, chunks, signalVars >>

\* The reader gets the line from getline and hands it to split_3.
Parse ==
  /\ pc = "parse"
  /\ \E r \in {split_3(printed_line \o << NUL >>, Len(printed_line), build,
                       Globals)} :
       /\ parse' = r
       /\ bsd_reversed' = r.bsd_reversed
       /\ digest_length' = r.digest_length
       /\ digest_hex_bytes' = r.digest_hex_bytes
  /\ pc' = "parsed"
  /\ UNCHANGED << build, optVars, min_digest_line_length, prefix_tag, delim,
                  checkVars, ok, exit_status, walkVars, sample, printed_line,
                  ctx, chunks, signalVars >>

\* Writer and reader go on to their next file and their next line.
NextLine ==
  /\ pc = "parsed"
  /\ sample' = [file |-> << >>, binary |-> 0, content |-> 0, bits |-> 0]
  /\ printed_line' = << >>
  /\ parse' = NoParse
  /\ pc' = "format"
  /\ UNCHANGED << build, optVars, codecVars, checkVars, ok, exit_status,
                  walkVars, ctx, chunks, signalVars >>

\* ------------------------------------------------------------------------
\* Compute mode: the steps of main and of the calls below it
\* ------------------------------------------------------------------------

\* No call of visit_dir yet.
NoVisit == [device |-> 0, inode |-> 0, found_match |-> FALSE,
            before |-> hash_initialize(0), after |-> hash_initialize(0),
            calls |-> 0]

WalkIdle ==
  /\ recursive = FALSE
  /\ ignore_mode = "IGNORE_DEFAULT"
  /\ argv = << >>
  /\ optind = 0
  /\ cwd_file = [i \in Slots |-> UninitSlot]
  /\ cwd_n_used = 0
  /\ pending_dirs = << >>
  /\ active_dir_set = << >>
  /\ dev_ino_obstack = << >>
  /\ stack = << >>
  /\ err = << >>
  /\ last_visit = NoVisit

\* The variables of check mode and of the line round trip, which compute
\* mode leaves alone.
notWalkVars == << build, optVars, codecVars, argv_left, is_stdin, manifest,
                  manifest_io, line_number, dc, hist, stdin_eof, runs, ok,
                  roundVars >>

\* The state W becomes the next state.  Behaviour that is undefined may end
\* the process (CRASH) or go on; a failed assertion ends it.
Commit(w, crash, next_pc) ==
  /\ cwd_file' = w.cwd_file
  /\ cwd_n_used' = w.cwd_n_used
  /\ pending_dirs' = w.pending_dirs
  /\ active_dir_set' = w.active_dir_set
  /\ dev_ino_obstack' = w.dev_ino_obstack
  /\ stack' = w.stack
  /\ err' = w.err
  /\ out' = w.out
  /\ have_read_stdin' = w.have_read_stdin
  /\ last_visit' = w.last_visit
  /\ pc' = IF w.abort \/ (w.ub /\ crash) THEN "crashed" ELSE next_pc

MayCrash(w) == IF w.ub THEN BOOLEAN ELSE {FALSE}

\* case 'r'
OptRecursive ==
  /\ pc = "getopt"
  /\ recursive' = TRUE
  /\ UNCHANGED << pc, notWalkVars, exit_status, out, have_read_stdin,
                  ignore_mode, fs, argv, optind, cwd_file, cwd_n_used,
                  pending_dirs, active_dir_set, dev_ino_obstack, stack, err,
                  last_visit >>

\* case 'a'
OptAll ==
  /\ pc = "getopt"
  /\ ignore_mode' = "IGNORE_MINIMAL"
  /\ UNCHANGED << pc, notWalkVars, exit_status, out, have_read_stdin,
                  recursive, fs, argv, optind, cwd_file, cwd_n_used,
                  pending_dirs, active_dir_set, dev_ino_obstack, stack, err,
                  last_visit >>

\* The end of the option loop in compute mode (the options of check mode
\* would end the run with a usage error), and the set-up of the cycle guard
\* and of the inventory.
StartCompute ==
  /\ pc = "getopt"
  /\ ~do_check
  /\ ~ignore_missing /\ ~status_only /\ ~warn /\ ~quiet /\ ~strict
  /\ \E n \in 0..MaxOperands : argv' \in [1..n -> OperandsOf(fs)]
  /\ optind' = 1
  /\ active_dir_set' = IF recursive THEN << hash_initialize(INITIAL_TABLE_SIZE) >>
                       ELSE << >>
  /\ dev_ino_obstack' = << >>
  /\ cwd_file' = [i \in Slots |-> UninitSlot]
  /\ cwd_n_used' = 0
  /\ min_digest_line_length' = MIN_DIGEST_LINE_LENGTH(build)
  /\ digest_length' = IF HASH_HAVE_VARIABLE_SIZE(build) /\ digest_length = 0
                      THEN digest_max_len * 8 ELSE digest_length
  /\ digest_hex_bytes' = IF HASH_HAVE_VARIABLE_SIZE(build)
                         THEN digest_length' \div 4
                         ELSE DIGEST_BITS(build) \div 4
  /\ pc' = "gobble"
  /\ UNCHANGED << build, optVars, bsd_reversed, prefix_tag, delim, argv_left,
                  is_stdin, manifest, manifest_io, line_number, dc, hist,
                  stdin_eof, runs, ok, roundVars, exit_status, out,
                  have_read_stdin, recursive, ignore_mode, fs, pending_dirs,
                  stack, err, last_visit >>

\* One gobble_file of main: "-" if there is no operand, else the next
\* operand.
GobbleOperand ==
  /\ pc = "gobble"
  /\ optind <= Len(argv) \/ (argv = << >> /\ optind = 1)
  /\ \E w \in {gobble_file(W, IF argv = << >> THEN NameStdin ELSE argv[optind],
                           IF argv = << >> THEN "regular_file" ELSE "unknown",
                           TRUE, << >>, recursive, ignore_mode)} :
       Commit(w, FALSE, "gobble")
  /\ optind' = optind + 1
  /\ UNCHANGED << notWalkVars, exit_status, recursive, ignore_mode, fs, argv >>

\* main after the operands are gobbled: extract_dirs_from_files (NULL, true)
\* and the call of digest_current_files, each if the inventory is not empty.
ExtractOperands ==
  /\ pc = "gobble"
  /\ ~(optind <= Len(argv) \/ (argv = << >> /\ optind = 1))
  /\ \E garbage \in Garbage :
     \E w \in {IF cwd_n_used # 0
               THEN extract_dirs_from_files(W, NULLP, TRUE, garbage)
               ELSE W} :
     \E crash \in MayCrash(w) :
       Commit([w EXCEPT !.stack = IF w.cwd_n_used # 0 THEN << DcfFrame(0) >>
                                  ELSE << >>],
              crash, "pending")
  /\ UNCHANGED << notWalkVars, exit_status, recursive, ignore_mode, fs, argv,
                  optind >>

Top == stack[Len(stack)]

\* A variant of digest_current_files that queues a directory for the loop of
\* main instead of calling digest_directory on it.
DigestCurrentFile_Queues ==
  /\ pc = "pending" /\ stack # << >>
  /\ Top.fn = "digest_current_files" /\ Top.i < cwd_n_used
  /\ Len(stack) < MaxDepth
  /\ \E w \in {LET f == cwd_file[Top.i]
                   file == f.name
                   w0 == IF f.mem = "freed" /\ f.name # NULLP
                         THEN [W EXCEPT !.ub = TRUE] ELSE W
                   step(x) == [x EXCEPT !.stack[Len(stack)].i = @ + 1]
                   df == digest_file(WalkFile(file), file = << NameStdin >>,
                                     build, ignore_missing, digest_length,
                                     TRUE)
                   w1 == [w0 EXCEPT !.have_read_stdin = @ \/ df.read_stdin]
                   wd == queue_directory(w0, file, NULLP, FALSE)
               IN IF is_directory(f)
                  THEN IF ~recursive THEN step(error(w0, "EISDIR", file))
                       ELSE IF fs.getcwd # "ok"
                       THEN step(error(w0, "getcwd", file))
                       ELSE IF Len(wd.stack) > Len(stack) THEN wd
                       ELSE step(wd)
                  ELSE IF df.ok
                       THEN step([w1 EXCEPT !.out =
                                    Append(@, [name |-> file, bin |-> df.bin])])
                       ELSE step(error(w1, "digest_file", file))} :
     \E crash \in MayCrash(w) : Commit(w, crash, "pending")
  /\ UNCHANGED << notWalkVars, exit_status, recursive, ignore_mode, fs, argv,
                  optind >>

\* One iteration of the loop of digest_current_files.
DigestCurrentFile ==
  /\ pc = "pending" /\ stack # << >>
  /\ Top.fn = "digest_current_files" /\ Top.i < cwd_n_used
  /\ Len(stack) < MaxDepth
  /\ \E w \in {LET f == cwd_file[Top.i]
                   file == f.name
                   w0 == IF f.mem = "freed" /\ f.name # NULLP
                         THEN [W EXCEPT !.ub = TRUE] ELSE W
                   step(x) == [x EXCEPT !.stack[Len(stack)].i = @ + 1]
                   df == digest_file(WalkFile(file), file = << NameStdin >>,
                                     build, ignore_missing, digest_length,
                                     TRUE)
                   w1 == [w0 EXCEPT !.have_read_stdin = @ \/ df.read_stdin]
                   wd == digest_directory_begin(w0, file, ignore_missing)
               IN IF is_directory(f)
                  THEN IF ~recursive THEN step(error(w0, "EISDIR", file))
                       ELSE IF fs.getcwd # "ok"
                       THEN step(error(w0, "getcwd", file))
                       ELSE IF Len(wd.stack) > Len(stack) THEN wd
                       ELSE step(wd)
                  ELSE IF df.ok
                       THEN step([w1 EXCEPT !.out =
                                    Append(@, [name |-> file, bin |-> df.bin])])
                       ELSE step(error(w1, "digest_file", file))} :
     \E crash \in MayCrash(w) : Commit(w, crash, "pending")
  /\ UNCHANGED << notWalkVars, exit_status, recursive, ignore_mode, fs, argv,
                  optind >>

\* The end of digest_current_files: clear_files, and the return to the
\* readdir loop or to main.
DigestCurrentFilesEnd ==
  /\ pc = "pending" /\ stack # << >>
  /\ Top.fn = "digest_current_files" /\ Top.i >= cwd_n_used
  /\ \E w \in {[clear_files(W) EXCEPT
                  !.stack = SubSeq(stack, 1, Len(stack) - 1)]} :
     \E crash \in MayCrash(w) : Commit(w, crash, "pending")
  /\ UNCHANGED << notWalkVars, exit_status, recursive, ignore_mode, fs, argv,
                  optind >>

\* One iteration of the readdir loop of digest_directory in which readdir
\* returns the entry ENT: gobble_file, and the call of digest_current_files.
ReadEntry(ent) ==
  /\ pc = "pending" /\ stack # << >>
  /\ Top.fn = "digest_directory" /\ ent \in Top.dirp
  /\ Len(stack) < MaxDepth
  /\ \E w \in {LET w0 == [W EXCEPT !.stack[Len(stack)].dirp = @ \ {ent}]
                   type == IF ent.d_type = "DT_DIR" THEN "directory"
                           ELSE "regular_file"
                   g == gobble_file(w0, ent.name, type, FALSE, Top.dirname,
                                    recursive, ignore_mode)
               IN IF file_ignored(ent.name, ignore_mode) THEN w0
                  ELSE [g EXCEPT !.stack = Append(@, DcfFrame(0))]} :
       Commit(w, FALSE, "pending")
  /\ UNCHANGED << notWalkVars, exit_status, recursive, ignore_mode, fs, argv,
                  optind >>

\* readdir returns NULL, at the end of the directory or (FAILED) with an
\* error: the loop ends and digest_directory finishes.
ReadEnd(failed) ==
  /\ pc = "pending" /\ stack # << >>
  /\ Top.fn = "digest_directory"
  /\ IF failed THEN Node[Top.node].readdir # "ok" ELSE Top.dirp = {}
  /\ \E garbage \in Garbage :
     \E w \in {digest_directory_end(
                 IF failed THEN error(W, "reading directory", Top.dirname) ELSE W,
                 recursive, garbage)} :
     \E crash \in MayCrash(w) : Commit(w, crash, "pending")
  /\ UNCHANGED << notWalkVars, exit_status, recursive, ignore_mode, fs, argv,
                  optind >>

\* One iteration of the loop of main over pending_dirs: a marker takes a key
\* off the stack and out of the set, a directory is scanned.
Pending ==
  /\ pc = "pending" /\ stack = << >> /\ pending_dirs # << >>
  /\ \E w \in {LET thispend == Head(pending_dirs)
                   w0 == [W EXCEPT !.pending_dirs = Tail(pending_dirs)]
                   n == Len(dev_ino_obstack)
                   di == dev_ino_obstack[n]
                   d == hash_delete(active_dir_set[1], di)
               IN IF LOOP_DETECT(W) /\ thispend.name = NULLP
                  THEN IF n = 0 THEN [w0 EXCEPT !.abort = TRUE]
                       ELSE IF ~d.found
                       THEN [w0 EXCEPT !.abort = TRUE,
                                       !.dev_ino_obstack = SubSeq(@, 1, n - 1)]
                       ELSE [w0 EXCEPT !.dev_ino_obstack = SubSeq(@, 1, n - 1),
                                       !.active_dir_set = << d.table >>]
                  ELSE digest_directory_begin(w0, thispend.name, ignore_missing)} :
     \E crash \in MayCrash(w) : Commit(w, crash, "pending")
  /\ UNCHANGED << notWalkVars, exit_status, recursive, ignore_mode, fs, argv,
                  optind >>

\* The end of main: the final assertion, and the exit status.
Finish ==
  /\ pc = "pending" /\ stack = << >> /\ pending_dirs = << >>
  /\ IF active_dir_set # << >> /\ hash_get_n_entries(active_dir_set[1]) # 0
     THEN pc' = "crashed" /\ UNCHANGED exit_status
     ELSE pc' = "exit" /\ exit_status' = (IF ok THEN 0 ELSE 1)
  /\ UNCHANGED << notWalkVars, out, have_read_stdin, walkVars >>

InitWalk ==
  /\ build = "MD5"
  /\ pc = "getopt"
  /\ OptionsInit
  /\ CodecInit
  /\ CheckInit
  /\ RoundIdle
  /\ ok = TRUE
  /\ exit_status = -1
  /\ WalkIdle
  /\ fs \in FileSystems

NextWalk ==
  \/ OptRecursive
  \/ OptAll
  \/ StartCompute
  \/ GobbleOperand
  \/ ExtractOperands
  \/ DigestCurrentFile
  \/ DigestCurrentFilesEnd
  \/ \E ent \in UNION {fs.dir[n] : n \in DirNodes} : ReadEntry(ent)
  \/ \E failed \in BOOLEAN : ReadEnd(failed)
  \/ Pending
  \/ Finish

SpecWalk == InitWalk /\ [][NextWalk]_vars

\* Compute mode over the file system with the symlink cycle.  The process is
\* sequential and always takes its next step.
InitCycle == InitWalk /\ fs = CycleFs

SpecCycle == InitCycle /\ [][NextWalk]_vars /\ WF_vars(NextWalk)

\* Compute mode over the file system whose lookups fail.
InitFail == InitWalk /\ fs = FailFs

SpecFail == InitFail /\ [][NextWalk]_vars

InitRound ==
  /\ build \in Builds
  /\ pc = "getopt"
  /\ OptionsInit
  /\ CodecInit
  /\ CheckInit
  /\ WalkIdle
  /\ fs = TreeFs
  /\ RoundIdle
  /\ ok = TRUE
  /\ exit_status = -1

NextRound ==
  \/ OptTag
  \/ StartReader
  \/ \E file \in FileNames, binary \in {0, 1}, content \in {1, 2},
        bits \in DigestLengths(build) : Format(file, binary, content, bits)
  \/ Parse
  \/ NextLine

SpecRound == InitRound /\ [][NextRound]_vars

\* What follows the digest and the blank of an untagged line of the model.
Rests == UNION {[1..k -> {" ", "*", "a"}] : k \in 1..MaxNameLen}

\* The reader is given an untagged line: a digest of the length of the
\* build, a blank, and REST.
UntaggedLine(rest) ==
  /\ pc = "format"
  /\ sample' = [file |-> rest, binary |-> 0, content |-> 1,
                bits |-> DIGEST_BITS(build)]
  /\ printed_line' = Hex02x(DigestOf(1, DIGEST_BITS(build) \div 8),
                            DIGEST_BITS(build) \div 8) \o << " " >> \o rest
  /\ pc' = "parse"
  /\ UNCHANGED << build, optVars, codecVars, checkVars, ok, exit_status,
                  walkVars, parse, ctx, chunks, signalVars >>

\* split_3 over untagged lines of every shape, one after another.
NextStyle ==
  \/ StartReader
  \/ \E rest \in Rests : UntaggedLine(rest)
  \/ Parse
  \/ NextLine

SpecStyle == InitRound /\ [][NextStyle]_vars

\* ------------------------------------------------------------------------
\* The cycle guard on its own: visit_dir called with any key
\* ------------------------------------------------------------------------

\* The keys visit_dir is called with: two devices, and inode numbers of
\* which two fall into the same bucket.
VisitKeys == {DevIno(dev, ino) : dev \in {1, 2}, ino \in {2, 3, 34}}

\* digest_directory at a directory with the key (dev, ino): visit_dir, and
\* dev_ino_push unless the key was found.
VisitDir(dev, ino) ==
  /\ pc = "visit"
  /\ last_visit.calls < MaxVisits
  /\ \E v \in {visit_dir(W, dev, ino)} :
       Commit(IF v.found_match THEN v.w ELSE dev_ino_push(v.w, dev, ino),
              FALSE, "visit")
  /\ UNCHANGED << notWalkVars, exit_status, recursive, ignore_mode, fs, argv,
                  optind >>

\* main at a marker: dev_ino_pop and hash_delete.
LeaveDir ==
  /\ pc = "visit"
  /\ dev_ino_obstack # << >>
  /\ \E d \in {hash_delete(active_dir_set[1],
                           dev_ino_obstack[Len(dev_ino_obstack)])} :
       /\ active_dir_set' = << d.table >>
       /\ dev_ino_obstack' = SubSeq(dev_ino_obstack, 1, Len(dev_ino_obstack) - 1)
  /\ UNCHANGED << pc, notWalkVars, exit_status, out, have_read_stdin, recursive,
                  ignore_mode, fs, argv, optind, cwd_file, cwd_n_used,
                  pending_dirs, stack, err, last_visit >>

InitVisit ==
  /\ build = "MD5"
  /\ pc = "visit"
  /\ OptionsInit
  /\ CodecInit
  /\ CheckInit
  /\ RoundIdle
  /\ ok = TRUE
  /\ exit_status = -1
  /\ ignore_mode = "IGNORE_DEFAULT"
  /\ argv = << >>
  /\ optind = 0
  /\ cwd_file = [i \in Slots |-> UninitSlot]
  /\ cwd_n_used = 0
  /\ pending_dirs = << >>
  /\ stack = << >>
  /\ err = << >>
  /\ fs = TreeFs
  /\ recursive = TRUE
  /\ active_dir_set = << hash_initialize(INITIAL_TABLE_SIZE) >>
  /\ dev_ino_obstack = << >>
  /\ last_visit = NoVisit

NextVisit ==
  \/ \E k \in VisitKeys : VisitDir(k.st_dev, k.st_ino)
  \/ LeaveDir

SpecVisit == InitVisit /\ [][NextVisit]_vars

\* ------------------------------------------------------------------------
\* Check mode as a whole
\* ------------------------------------------------------------------------

InitCheck ==
  /\ build \in CheckBuilds
  /\ pc = "getopt"
  /\ OptionsInit
  /\ CodecInit
  /\ CheckInit
  /\ WalkIdle
  /\ fs = TreeFs
  /\ RoundIdle
  /\ ok = TRUE
  /\ exit_status = -1

NextCheck ==
  \/ OptStatus
  \/ OptWarn
  \/ OptQuiet
  \/ OptIgnoreMissing
  \/ OptStrict
  \/ StartCheck
  \/ DigestCheckOpen
  \/ \E k \in 1..NLinesOf(build) : CheckLine(k)
  \/ CheckEnd
  \/ CheckExit

SpecCheck == InitCheck /\ [][NextCheck]_vars

\* One stream hashed by the SHA-3 build, cut into update calls in any way.
\* The readdir loop with signals arriving.
InitSignals ==
  /\ build = "MD5"
  /\ pc = "readdir"
  /\ OptionsInit
  /\ CodecInit
  /\ CheckInit
  /\ WalkIdle
  /\ fs = TreeFs
  /\ RoundIdle
  /\ ok = TRUE
  /\ exit_status = -1

NextSignals ==
  \/ \E sig \in FatalSignals : sighandler(sig)
  \/ stophandler
  \/ \E wrote \in BOOLEAN : ReaddirIteration(wrote)
  \/ ProcessSignalsWhile
  \/ ProcessSignalsFlush
  \/ ProcessSignalsRaise

SpecSignals == InitSignals /\ [][NextSignals]_vars

InitSponge ==
  /\ build = "SHA3"
  /\ pc = "sha3_init"
  /\ OptionsInit
  /\ CodecInit
  /\ CheckInit
  /\ WalkIdle
  /\ fs = TreeFs
  /\ RoundIdle
  /\ ok = TRUE
  /\ exit_status = -1

NextSponge ==
  \/ \E block_size \in BlockSizes, g \in GarbageBytes : Sha3Init(block_size, g)
  \/ \E length \in 0..MaxStream : Sha3Update(length)
  \/ Sha3Final

SpecSponge == InitSponge /\ [][NextSponge]_vars

\* Check mode over manifests that spell digests in both letter cases.
NextCase ==
  \/ OptStatus
  \/ OptWarn
  \/ OptQuiet
  \/ OptIgnoreMissing
  \/ OptStrict
  \/ StartCheck
  \/ DigestCheckOpen
  \/ \E k \in CaseLines : CheckLine(k)
  \/ CheckEnd
  \/ CheckExit

SpecCase == InitCheck /\ [][NextCase]_vars

\* Check mode of the SHA-3 build.
InitCheckSha3 ==
  /\ build = "SHA3"
  /\ pc = "getopt"
  /\ OptionsInit
  /\ CodecInit
  /\ CheckInit
  /\ WalkIdle
  /\ fs = TreeFs
  /\ RoundIdle
  /\ ok = TRUE
  /\ exit_status = -1

SpecCheckSha3 == InitCheckSha3 /\ [][NextCheck]_vars

\* ========================================================================
\* Properties
\* ========================================================================

\* Every finished digest_check call of this run together with the call in
\* progress (the latter without a return value).
AllHist == [i \in 1..Len(runs) |-> runs[i].hist] \o << hist >>

HistKinds(h) == {h[i].kind : i \in 1..Len(h)}

\* The verdict as the outcomes of the lines define it.
OutcomeVerdict(h, strict_flag) ==
  /\ \E i \in 1..Len(h) : h[i].kind \notin {"comment", "misformatted"}
  /\ "match" \in HistKinds(h)
  /\ "mismatch" \notin HistKinds(h)
  /\ "failed_open" \notin HistKinds(h)
  /\ (strict_flag => "misformatted" \notin HistKinds(h))

\* C1 as stated: digest_check returns pass exactly when at least one
\* well-formed line existed, at least one checksum matched, none mismatched,
\* no listed file failed to open or read and, under --strict, no line was
\* misformatted.
C1_PassIffOutcomes ==
  \A i \in 1..Len(runs) : runs[i].ret <=> OutcomeVerdict(runs[i].hist, strict)

\* C1 as amended: the same equivalence, with the added condition that the
\* manifest stream itself was opened, read to end of input and closed without
\* an error.
C1_PassIffOutcomesAndStreamOk ==
  \A i \in 1..Len(runs) :
    runs[i].ret <=> (manifest_io = "ok" /\ OutcomeVerdict(runs[i].hist, strict))

\* A call returned pass although a line was misformatted (no --strict) and
\* another call returned fail: both sides of the equivalence occur.
C1_Witness ==
  /\ Len(runs) = 1
  /\ runs[1].ret
  /\ "misformatted" \in HistKinds(runs[1].hist)
  /\ manifest_io = "ok"

\* A line of the manifest that split_3 accepted, that digest_check took as
\* well-formed, and whose file does not exist.
NamesMissingFile(e) ==
  /\ e.kind \notin {"comment", "misformatted"}
  /\ e.file_name # NameStdin
  /\ FileEnv(e.file_name).open = "ENOENT"

Without(h, P(_)) == SelectSeq(h, LAMBDA e : ~P(e))

\* C7: under --ignore-missing a line whose file does not exist (ENOENT)
\* leaves n_open_or_read_failures, n_mismatched_checksums, the misformatted
\* counters and matched_checksums as they were, and the value digest_check
\* returns is the verdict of the outcomes of the other lines alone.
C7_IgnoreMissingIsNeutral ==
  ignore_missing =>
    /\ \A c \in 1..Len(AllHist) : \A i \in 1..Len(AllHist[c]) :
         LET e == AllHist[c][i] IN
           NamesMissingFile(e) =>
             /\ e.after.n_open_or_read_failures = e.before.n_open_or_read_failures
             /\ e.after.n_mismatched_checksums = e.before.n_mismatched_checksums
             /\ e.after.n_misformatted_lines = e.before.n_misformatted_lines
             /\ e.after.n_improperly_formatted_lines
                  = e.before.n_improperly_formatted_lines
             /\ e.after.matched_checksums = e.before.matched_checksums
             /\ Verdict(e.after, strict) = Verdict(e.before, strict)
    /\ \A c \in 1..Len(runs) :
         manifest_io = "ok" =>
           (runs[c].ret
              <=> OutcomeVerdict(Without(runs[c].hist, NamesMissingFile), strict))

\* A call that passed although one of its lines named a file that does not
\* exist.
C7_Witness ==
  /\ ignore_missing
  /\ Len(runs) >= 1
  /\ runs[1].ret
  /\ \E i \in 1..Len(runs[1].hist) : NamesMissingFile(runs[1].hist[i])

\* C8: a second digest_check over the same manifest and the same files, in
\* the same process, ends with the counters and the verdict of the first
\* (the inputs being files that can be read again, not standard input).
C8_CheckIsIdempotent ==
  ~stdin_eof =>
    \A i \in 1..Len(runs) :
      /\ runs[i].ret = runs[1].ret
      /\ runs[i].dc = runs[1].dc

\* Two finished calls over a manifest that mixes a GNU line and a
\* BSD-reversed line, so that the style latch was set by the first call.
C8_Witness ==
  /\ Len(runs) = 2
  /\ ~stdin_eof
  /\ bsd_reversed # -1
  /\ Len(runs[2].hist) = 2
  /\ "misformatted" \in HistKinds(runs[2].hist)
  /\ "match" \in HistKinds(runs[2].hist)

\* C10: with --status no line outcome is printed; with --quiet an OK line is
\* not printed while a FAILED line and a FAILED open or read line are.
C10_StatusAndQuietOutput ==
  \A c \in 1..Len(AllHist) : \A i \in 1..Len(AllHist[c]) :
    LET e == AllHist[c][i] IN
      /\ status_only => e.printed = << >>
      /\ quiet =>
           /\ e.kind = "match" => e.printed = << >>
           /\ e.kind = "mismatch" =>
                Len(e.printed) = 1 /\ e.printed[1].text = "FAILED"
           /\ e.kind = "failed_open" =>
                Len(e.printed) = 1 /\ e.printed[1].text = "FAILED open or read"

\* Under --quiet a manifest produced a match, which printed nothing, and a
\* mismatch, which printed FAILED.
C10_Witness ==
  /\ quiet
  /\ Len(hist) = 2
  /\ hist[1].kind = "match" /\ hist[1].printed = << >>
  /\ hist[2].kind = "mismatch" /\ hist[2].printed # << >>

\* The style in which a handled line was written, and the file it was
\* written for.
WrittenStyle(e) == e.style
WrittenName(e) == e.written

SampleHex == Hex02x(DigestOf(sample.content, sample.bits \div 8), sample.bits \div 8)

\* C5: the line print_digest writes for a digest and a file name is accepted
\* by split_3 under the same algorithm, and split_3 returns the same digest
\* length, the same hex digest and the same file name (and, for an untagged
\* line, the same binary flag), with and without --tag, for file names that
\* print_digest escapes and for those it does not.
C5_RoundTrip ==
  pc = "parsed" =>
    /\ parse.ok
    /\ parse.file_name = sample.file
    /\ parse.hex_digest = SampleHex
    /\ parse.digest_hex_bytes = sample.bits \div 4
    /\ HASH_HAVE_VARIABLE_SIZE(build) => parse.digest_length = sample.bits
    /\ ~prefix_tag => parse.binary = sample.binary

\* A tagged line of a variable-size algorithm with a length suffix, for a
\* file name with a newline and a backslash, was written and read back.
C5_Witness ==
  /\ pc = "parsed"
  /\ prefix_tag
  /\ build = "BLAKE2b" /\ sample.bits = 256
  /\ sample.file = << NL, BS >>
  /\ Head(printed_line) = BS
  /\ parse.ok

\* The number of entries of the table that are equal to KEY.
CountKey(table, key) ==
  Cardinality({<< b, k >> \in (DOMAIN table.bucket) \X (1..MaxVisits + 1) :
                 k <= Len(table.bucket[b]) /\ table.bucket[b][k] = key})

\* C9: visit_dir returns true exactly when a key with the same device and
\* inode is in the table, and then the table is as it was; otherwise it
\* returns false and the table holds what it held plus the key, once.
C9_VisitDirContract ==
  last_visit.calls > 0 =>
    LET key == DevIno(last_visit.device, last_visit.inode)
        before == last_visit.before
        after == last_visit.after
    IN /\ last_visit.found_match <=> key \in hash_entries(before)
       /\ last_visit.found_match => after = before
       /\ ~last_visit.found_match =>
            /\ hash_entries(after) = hash_entries(before) \cup {key}
            /\ CountKey(after, key) = 1
            /\ hash_get_n_entries(after) = hash_get_n_entries(before) + 1

\* visit_dir found a key in a table that also holds a key of the same bucket
\* and a key with the same inode number on the other device.
C9_Witness ==
  /\ last_visit.found_match
  /\ last_visit.device = 1 /\ last_visit.inode = 2
  /\ {DevIno(1, 34), DevIno(2, 2)} \subseteq hash_entries(last_visit.before)

\* The diagnostics that report that something could not be accessed, opened
\* or read.
FailureMessages ==
  {"cannot access", "bad symlink", "digest_file", "cannot open directory",
   "cannot determine device and inode", "reading directory", "EISDIR", "getcwd"}

DigestingFailed == \E i \in 1..Len(err) : err[i].msg \in FailureMessages

\* C2 (compute mode): the exit status is 0 if every operand and every
\* discovered file and directory was accessed, opened and read, and 1 if one
\* of them was not.
C2_ExitStatusReportsFailure ==
  (pc = "exit" /\ ~do_check) => (exit_status = 1 <=> DigestingFailed)

RECURSIVE Under(_, _)
\* The inodes that the tree below the inodes NS holds, NS included.
Under(ns, k) ==
  IF k = 0 THEN ns
  ELSE Under(ns \cup UNION {{e.node : e \in fs.dir[n]} : n \in ns \cap DirNodes}, k - 1)

\* The regular files that the operands name or hold in their trees.
OperandFiles ==
  Under({stat(<< argv[i] >>) : i \in 1..Len(argv)}, Cardinality(DirNodes))
    \cap FileNodes

\* How often the digest of the inode N was printed.
TimesDigested(n) == Cardinality({i \in 1..Len(out) : stat(out[i].name) = n})

\* C3: in a tree without a cycle, a recursive run digests every regular file
\* exactly once, whatever the order in which readdir returns the entries.
C3_EveryRegularFileOnce ==
  (/\ pc = "exit"
   /\ ~do_check /\ recursive
   /\ fs.name \in {"tree", "sibling"}
   /\ argv # << >>
   /\ \A i, j \in 1..Len(argv) : argv[i] = argv[j] => i = j)
  => \A n \in OperandFiles : TimesDigested(n) = 1

NotListing(e) ==
  SelectSeq(e, LAMBDA x : x.msg = "not listing already-listed directory")

DirFrames(stk) == SelectSeq(stk, LAMBDA f : f.fn = "digest_directory")

\* C4 as stated: a run over a tree with a symlink cycle ends with one
\* diagnostic per directory that was entered again.
C4_OneDiagnosticPerDirectory ==
  (pc = "exit" /\ fs.name = "cycle") =>
    Len(NotListing(err))
      = Cardinality({stat(NotListing(err)[i].name) : i \in 1..Len(NotListing(err))})

\* A step in which visit_dir was called and found the key.
Rejected == last_visit'.calls = last_visit.calls + 1 /\ last_visit'.found_match

\* C4 as amended: every time digest_directory comes to a directory whose
\* key is in the set of active directories it writes one diagnostic and does
\* not scan the directory, and it writes that diagnostic at no other time;
\* no directory is being scanned twice at once, so the nesting is bounded by
\* the number of directories; and the run ends, at the end of main or in a
\* crash.
C4_OneDiagnosticPerReentry ==
  /\ [][/\ Len(NotListing(err')) = Len(NotListing(err)) + (IF Rejected THEN 1 ELSE 0)
        /\ Rejected => DirFrames(stack') = DirFrames(stack)]_vars
  /\ [](\A i, j \in 1..Len(DirFrames(stack)) :
          DirFrames(stack)[i].node = DirFrames(stack)[j].node => i = j)
  /\ <>(pc \in {"exit", "crashed"})

\* A run over d in the tree with the cycle ended after both symlinks to d
\* were met and reported.
C4_Witness ==
  /\ pc = "exit"
  /\ fs.name = "cycle"
  /\ argv = << << "d" >> >>
  /\ Len(NotListing(err)) = 2
  /\ Len(out) = 2

\* The category a handled line was counted in, as the change of the
\* counters and flags of digest_check shows it.
CountedAs(e) ==
  {c \in {"misformatted", "failed_open", "mismatch", "match", "ignored"} :
     e.after = CountLine(e.before, c)
     /\ (c = "ignored" => e.kind = "ignored")
     /\ (c = "match" => e.kind = "match")}

\* C11: in check mode no line ends the run: every line that is not a comment
\* is handled and counted in exactly one of misformatted, open or read
\* failure, mismatch, match and ignored-missing, and the loop goes on to the
\* next line until the end of the input.
C11_EveryLineCounted ==
  /\ pc # "aborted"
  /\ \A c \in 1..Len(AllHist) : \A i \in 1..Len(AllHist[c]) :
       LET e == AllHist[c][i] IN
         e.kind # "comment" =>
           /\ e.kind \in {"misformatted", "failed_open", "mismatch", "match", "ignored"}
           /\ CountedAs(e) = {e.kind}
  /\ \A c \in 1..Len(runs) :
       manifest_io = "ok" => Len(runs[c].hist) = Len(manifest)

\* The line of which line K is a respelling (K itself when it is none), and
\* whether two lines differ in nothing but the letter case of their digests.
CaseTwin(k) == CASE k = 12 -> 1 [] k = 13 -> 2 [] k = 14 -> 6 [] OTHER -> k

SameButDigestCase(l1, l2) ==
  /\ l1.style = l2.style
  /\ Len(l1.text) = Len(l2.text)
  /\ l1.text # l2.text
  /\ \A k \in 1..Len(l1.text) :
       \/ l1.text[k] = l2.text[k]
       \/ /\ InDigest(l1.text, l1.style, k) /\ InDigest(l2.text, l2.style, k)
          /\ tolower(l1.text[k]) = tolower(l2.text[k])

\* C12: hex digests are compared without regard to letter case.  Any two
\* lines handled in this run (in one digest_check call or in two) that
\* differ only in the letter case of the digest, and so name the same
\* file, got the same outcome and produced the same output.
C12_CaseInsensitive ==
  \A c1, c2 \in 1..Len(AllHist) :
    \A i \in 1..Len(AllHist[c1]) : \A j \in 1..Len(AllHist[c2]) :
      \A e1 \in {AllHist[c1][i]} : \A e2 \in {AllHist[c2][j]} :
        (e1.line # e2.line /\ CaseTwin(e1.line) = CaseTwin(e2.line)) =>
          /\ e1.kind = e2.kind
          /\ e1.file_name = e2.file_name
          /\ e1.printed = e2.printed

\* One manifest held a digest in lower case and the same digest in upper
\* case, both lines were handled and both matched.
C12_Witness ==
  /\ \E i, j \in 1..Len(hist) :
       /\ hist[i].line = 1 /\ hist[i].kind = "match"
       /\ hist[j].line = 12 /\ hist[j].kind = "match"
  /\ \A k \in {12, 13, 14} :
       SameButDigestCase(LineTable(build, k), LineTable(build, CaseTwin(k)))

\* The stream of the first N bytes, the sequence of its full blocks, and
\* the bytes after its last full block.
Stream(n) == [k \in 1..n |-> Data(k)]

FullBlocks(n, block_size) ==
  [i \in 1..(n \div block_size) |->
     SubSeq(Stream(n), (i - 1) * block_size + 1, i * block_size)]

Partial(n, block_size) == SubSeq(Stream(n), n - (n % block_size) + 1, n)

\* C13: what sha3_update leaves behind depends on the bytes fed and not on
\* how they were cut into calls.  After any sequence of calls that fed N
\* bytes in all, the blocks absorbed are the full blocks of those N bytes
\* in order, the buffer position is N modulo the block size and the buffer
\* holds the bytes after the last full block up to that position; after
\* sha3_*_final one more block was absorbed, the padded partial block.
C13_ChunkingIndependent ==
  pc \in {"sha3_update", "sha3_final"} =>
    \A n \in {Sum(chunks)} :
      /\ ctx.index = n % ctx.block_size
      /\ SubSeq(ctx.block, 1, ctx.index) = Partial(n, ctx.block_size)
      /\ pc = "sha3_update" => ctx.absorbed = FullBlocks(n, ctx.block_size)
      /\ pc = "sha3_final" =>
           ctx.absorbed =
             sha3_pad(FullBlocks(n, ctx.block_size), ctx.block_size,
                      Partial(n, ctx.block_size) \o [k \in 1..ctx.block_size |-> 0],
                      n % ctx.block_size)

\* A stream of five bytes was fed to a sponge with blocks of three bytes in
\* calls of one, three and one bytes: the second call completed the
\* buffered block, and the third added to the buffer left by the second.
C13_Witness ==
  /\ pc = "sha3_final"
  /\ ctx.block_size = 3
  /\ chunks = << 1, 3, 1 >>
  /\ Len(ctx.absorbed) = 2

\* The keys on the stack, as a set.
Keys(stk) == {stk[k] : k \in 1..Len(stk)}

\* C14: in every state of a recursive run the set of active directories
\* and the stack of keys hold the same keys, each of them once in the one
\* and once in the other (so an insertion always comes with a push, and a
\* pop with a deletion).
C14_SetMirrorsStack ==
  active_dir_set # << >> =>
    /\ hash_entries(active_dir_set[1]) = Keys(dev_ino_obstack)
    /\ hash_get_n_entries(active_dir_set[1]) = Len(dev_ino_obstack)
    /\ Cardinality(Keys(dev_ino_obstack)) = Len(dev_ino_obstack)

\* A recursive run holds the keys of two nested directories after it has
\* already taken a key off again.
C14_Witness ==
  /\ recursive
  /\ pc = "pending"
  /\ Len(dev_ino_obstack) = 2
  /\ hash_get_n_entries(active_dir_set[1]) = 2
  /\ last_visit.calls >= 3
  /\ ~last_visit.found_match

\* The (device, inode) key of the directory that PATH names.
KeyOf(path) == DevIno(Node[stat(path)].st_dev, Node[stat(path)].st_ino)

\* The loop of main is about to dequeue a marker.
AtMarker ==
  /\ pc = "pending" /\ stack = << >> /\ pending_dirs # << >>
  /\ active_dir_set # << >>
  /\ Head(pending_dirs).name = NULLP

\* C15: when the marker of directory D is dequeued, the key that is popped
\* off the stack (its top) is the key of D.
C15_MarkerPopsOwnKey ==
  (AtMarker /\ dev_ino_obstack # << >>) =>
    dev_ino_obstack[Len(dev_ino_obstack)] = KeyOf(Head(pending_dirs).realname)

\* C16: whenever the loop of main dequeues a marker, the stack of keys is
\* not empty and the key on its top is in the set of active directories,
\* so that neither the assertion of dev_ino_pop nor assert (found != NULL)
\* fails.
C16_NoConsistencyFault ==
  AtMarker =>
    /\ dev_ino_obstack # << >>
    /\ dev_ino_obstack[Len(dev_ino_obstack)] \in hash_entries(active_dir_set[1])

\* C17: when the queue of pending directories is empty and main leaves its
\* loop, the set of active directories is empty (every key that was
\* inserted has been deleted), so the assertion
\* hash_get_n_entries (active_dir_set) == 0 holds and the run exits.
C17_SetEmptyAtEnd ==
  /\ (pc = "pending" /\ stack = << >> /\ pending_dirs = << >>
        /\ active_dir_set # << >>) =>
       /\ hash_get_n_entries(active_dir_set[1]) = 0
       /\ dev_ino_obstack = << >>
  /\ (pc = "exit" /\ ~do_check /\ active_dir_set # << >>) =>
       hash_get_n_entries(active_dir_set[1]) = 0

\* A recursive run has ended after two directories were entered and left.
C17_Witness ==
  /\ pc = "exit"
  /\ recursive
  /\ last_visit.calls >= 2
  /\ last_visit.after # last_visit.before
  /\ active_dir_set # << >>
  /\ hash_get_n_entries(active_dir_set[1]) = 0

\* The markers that digest_directory has queued (extract_dirs_from_files
\* queues them with command_line_arg false), and the diagnostics with which
\* digest_directory turns a directory away or gives up reading one.
Markers(q) == SelectSeq(q, LAMBDA p : p.name = NULLP /\ ~p.command_line_arg)

Turned(e) ==
  SelectSeq(e, LAMBDA x : x.msg \in {"cannot open directory",
                                       "cannot determine device and inode",
                                       "not listing already-listed directory"})

ReadFailed(e) == SelectSeq(e, LAMBDA x : x.msg = "reading directory")

\* What a step that writes one of these diagnostics does to the guard.
PairedStep ==
  /\ Len(Turned(err')) > Len(Turned(err)) =>
       /\ active_dir_set' = active_dir_set
       /\ dev_ino_obstack' = dev_ino_obstack
       /\ Markers(pending_dirs') = Markers(pending_dirs)
       /\ DirFrames(stack') = DirFrames(stack)
  /\ (Len(ReadFailed(err')) > Len(ReadFailed(err)) /\ active_dir_set # << >>) =>
       /\ Len(DirFrames(stack')) = Len(DirFrames(stack)) - 1
       /\ Len(Markers(pending_dirs')) = Len(Markers(pending_dirs)) + 1
       /\ Head(pending_dirs').realname = stack[Len(stack)].dirname
       /\ dev_ino_obstack' = dev_ino_obstack

InsideOwnSubtree(path) ==
  \E k \in 0..(Len(path) - 1) : stat(SubSeq(path, 1, k)) = stat(path)

\* Every "not listing already-listed directory" written so far names a
\* directory that was entered from inside its own subtree.
ReportedInsideOwnSubtree ==
  \A i \in 1..Len(NotListing(err)) : InsideOwnSubtree(NotListing(err)[i].name)

\* C19: the set of active directories holds only directories whose scan is
\* in progress, and so a directory is reported as already listed only when
\* it is entered again from inside its own subtree (never for a directory
\* whose scan has ended, such as a sibling reached again through a link).
C19_OnlyCyclesReported ==
  /\ ReportedInsideOwnSubtree
  /\ active_dir_set # << >> =>
       hash_entries(active_dir_set[1]) \subseteq
         {KeyOf(DirFrames(stack)[k].dirname) : k \in 1..Len(DirFrames(stack))}

\* The names of the slots I to N - 1 of the inventory that hold a
\* directory, in the order of the slots.
RECURSIVE DirNamesFrom(_, _, _)
DirNamesFrom(files, i, n) ==
  IF i >= n THEN << >>
  ELSE (IF is_directory(files[i]) THEN << files[i].name >> ELSE << >>)
       \o DirNamesFrom(files, i + 1, n)

\* C20: extract_dirs_from_files examines the occupied slots 0 to
\* cwd_n_used - 1 and no other.  When main calls it on the operands, the
\* queue it leaves holds one entry for each occupied slot that is a
\* directory, the first slot included, in the order of the slots, and
\* nothing else.
C20_ExtractExaminesOccupiedSlots ==
  [][(pc = "gobble" /\ pc' # "gobble" /\ cwd_n_used # 0) =>
       [k \in 1..Len(pending_dirs') |-> pending_dirs'[k].name]
         = DirNamesFrom(cwd_file, 0, cwd_n_used)]_vars

\* The occupied slots of the inventory, in order.
Inventory(files, n) == [k \in 1..n |-> files[k - 1]]

\* main calls extract_dirs_from_files on the operands: the step that leaves
\* the gobbling of the operands with a non-empty inventory.
ExtractsOperands == pc = "gobble" /\ pc' # "gobble" /\ cwd_n_used # 0

\* The operands that name a regular file.
FileOperands ==
  {i \in 1..Len(argv) :
     stat(<< argv[i] >>) # "" /\ Node[stat(<< argv[i] >>)].type = "file"}

\* C21: after extract_dirs_from_files has run over the operands, the
\* inventory holds the entries it held before, less those that were queued
\* as directories of the command line, unchanged and in their order; and
\* a run that ends has digested every operand that is a regular file as
\* often as the operand was given.
C21_InventoryKeepsOtherOperands ==
  /\ [][ExtractsOperands =>
          Inventory(cwd_file', cwd_n_used')
            = SelectSeq(Inventory(cwd_file, cwd_n_used),
                        LAMBDA f : ~\E k \in 1..Len(pending_dirs') :
                                      /\ pending_dirs'[k].name = f.name
                                      /\ pending_dirs'[k].command_line_arg)]_vars
  /\ []((pc = "exit" /\ ~do_check) =>
          \A i \in FileOperands :
            Cardinality({k \in 1..Len(out) : out[k].name = << argv[i] >>})
              = Cardinality({j \in 1..Len(argv) : argv[j] = argv[i]}))

\* A call of digest_directory on a path below D is in progress.
ScanningBelow(D) ==
  \E i \in 1..Len(stack) :
    /\ stack[i].fn = "digest_directory"
    /\ IsPrefix(D, stack[i].dirname)
    /\ stack[i].dirname # D

\* The loop of main is about to dequeue the marker of D.
MarkerAtHead(D) ==
  /\ pc = "pending" /\ stack = << >> /\ pending_dirs # << >>
  /\ Head(pending_dirs).name = NULLP
  /\ Head(pending_dirs).realname = D

OperandPaths == {<< n >> : n \in OperandNames}

\* C22 as stated: once the marker of a directory D has been dequeued, no
\* directory below D is scanned any more.
C22_NoDescendantAfterMarker ==
  \A D \in OperandPaths : [](MarkerAtHead(D) => [](~ScanningBelow(D)))

\* Every directory that is being scanned is scanned inside the calls of the
\* directories above it on its path.
FramesNested ==
  \A i \in 1..Len(stack) :
    stack[i].fn = "digest_directory" =>
      \A k \in 1..(Len(stack[i].dirname) - 1) :
        \E j \in 1..(i - 1) :
          /\ stack[j].fn = "digest_directory"
          /\ stack[j].dirname = SubSeq(stack[i].dirname, 1, k)

\* A marker is queued by the call of its directory as that call returns, and
\* is dequeued only when no call is in progress.
MarkerStep ==
  /\ Len(Markers(pending_dirs')) > Len(Markers(pending_dirs)) =>
       /\ stack # << >>
       /\ stack[Len(stack)].fn = "digest_directory"
       /\ Head(pending_dirs').realname = stack[Len(stack)].dirname
       /\ ~ScanningBelow(stack[Len(stack)].dirname)
       /\ Len(DirFrames(stack')) = Len(DirFrames(stack)) - 1
  /\ Len(Markers(pending_dirs')) < Len(Markers(pending_dirs)) =>
       stack = << >>

\* C22 as amended: within one visit of a directory D, the marker of D is
\* queued only as the call that scans D returns, every directory below D is
\* scanned inside that call, and a marker is dequeued only by the loop of
\* main when no call is in progress: so the marker of a visit is dequeued
\* after every directory reached in that visit has been scanned.
C22_MarkerAfterSubtreeOfVisit ==
  /\ []FramesNested
  /\ [][MarkerStep]_vars

\* The marker of d is about to be dequeued, and d/a was scanned in the same
\* visit: its marker is in the queue behind it.
C22_Witness ==
  /\ MarkerAtHead(<< << "d" >> >>)
  /\ \E k \in 2..Len(pending_dirs) :
       /\ pending_dirs[k].name = NULLP
       /\ pending_dirs[k].realname = << << "d" >>, << "a" >> >>

\* C23: the walk is iterative: at most one call of digest_directory is in
\* progress at any time, whatever the depth of the tree.
C23_WalkIsIterative == Len(DirFrames(stack)) <= 1

\* cwd_n_alloc = 128 in main; gobble_file doubles it only when cwd_n_used has
\* reached it.
cwd_n_alloc == 128

\* The entries main registers: the operands, or "-" in place of none.
Registered == IF argv = << >> THEN 1 ELSE Len(argv)

\* The number of entries of the directory that is being enumerated, 0 when
\* none is.
Enumerated ==
  IF DirFrames(stack) = << >> THEN 0
  ELSE Cardinality(fs.dir[DirFrames(stack)[Len(DirFrames(stack))].node])

Gobbled(ent) ==
  /\ pc = "pending" /\ stack # << >>
  /\ stack[Len(stack)].fn = "digest_directory"
  /\ ent \in stack[Len(stack)].dirp
  /\ Len(stack') >= Len(stack)
  /\ stack'[Len(stack)].fn = "digest_directory"
  /\ stack'[Len(stack)].dirp = stack[Len(stack)].dirp \ {ent}
  /\ ~file_ignored(ent.name, ignore_mode)

\* The entries whose gobbling this step can be, with their full names.
InScan ==
  IF pc = "pending" /\ stack # << >> /\ stack[Len(stack)].fn = "digest_directory"
  THEN stack[Len(stack)].dirp ELSE {}

FullName(ent) == attach(stack[Len(stack)].dirname, << ent.name >>)

\* The step is the gobble_file of main for an operand that stat cannot find.
GobbledMissingOperand ==
  /\ pc = "gobble" /\ argv # << >> /\ optind <= Len(argv)
  /\ optind' = optind + 1
  /\ stat(<< argv[optind] >>) = ""

\* The slot gobble_file was about to fill holds a placeholder for NAME.
Placeholder(name) ==
  /\ cwd_n_used' = cwd_n_used + 1
  /\ cwd_file'[cwd_n_used].name = name
  /\ ~cwd_file'[cwd_n_used].stat_ok

Dropped == cwd_n_used' = cwd_n_used

Reports(msg, name) == err' = Append(err, [msg |-> msg, name |-> name])

\* What C25 says of one step.
PlaceholderStep ==
  /\ GobbledMissingOperand => Dropped
  /\ \A ent \in InScan :
       (Gobbled(ent) /\ stat(FullName(ent)) = "") => Placeholder(FullName(ent))

FailedLookupStep ==
  /\ GobbledMissingOperand =>
       Dropped /\ Reports("cannot access", << argv[optind] >>)
  /\ \A ent \in InScan :
       (Gobbled(ent) /\ stat(FullName(ent)) = "") =>
         IF ent.d_type = "DT_LNK"
         THEN Dropped /\ Reports("bad symlink", FullName(ent))
         ELSE Placeholder(FullName(ent))
              /\ Reports("cannot access", FullName(ent))

Raises == SelectSeq(siglog, LAMBDA e : e.ev = "raise")

Caught(sig) == SelectSeq(siglog, LAMBDA e : e.ev = "caught" /\ e.sig = sig)

\* The raise at position I of the log comes after a flush with no other
\* raise between them, and with nothing left in the buffer.
FlushedBefore(i) ==
  /\ ~siglog[i].buffered
  /\ \E j \in 1..(i - 1) :
       /\ siglog[j].ev = "fflush"
       /\ \A k \in (j + 1)..(i - 1) : siglog[k].ev # "raise"

\* C26: in process_signals every raise comes after a flush of stdout; each
\* pending stop signal is answered by one SIGSTOP that takes one off the
\* count; a fatal signal is raised, with its default disposition, only when
\* no stop signal is pending; and the function returns only when neither a
\* fatal nor a stop signal is pending.
C26_DrainOrder ==
  /\ [](\A i \in 1..Len(siglog) :
          siglog[i].ev = "raise" =>
            /\ FlushedBefore(i)
            /\ IF siglog[i].stops # 0
               THEN /\ siglog[i].sig = Signals.SIGSTOP
                    /\ siglog[i].left = siglog[i].stops - 1
               ELSE /\ siglog[i].sig \in FatalSignals
                    /\ siglog[i].disposition = "SIG_DFL"
                    /\ i = Len(siglog) /\ pc = "killed")
  /\ [](Len(SelectSeq(Raises, LAMBDA e : e.sig = Signals.SIGSTOP))
          = Len(Caught(Signals.SIGTSTP)) - stop_signal_count)
  /\ [][(pc = "process_signals" /\ pc' = "readdir") =>
          (interrupt_signal = 0 /\ stop_signal_count = 0)]_vars

\* Two stop signals and then SIGTERM were caught before the drain point:
\* two SIGSTOP were raised, and then SIGTERM ended the process.
C26_Witness ==
  /\ pc = "killed"
  /\ Len(Raises) = 3
  /\ Raises[1].sig = Signals.SIGSTOP /\ Raises[2].sig = Signals.SIGSTOP
  /\ Raises[3].sig = Signals.SIGTERM
  /\ stop_signal_count = 0

\* split_3 is called on a line that is long enough to be looked at.
ParseStep ==
  /\ pc = "parse" /\ pc' = "parsed"
  /\ Len(printed_line) >= min_digest_line_length

\* What follows the digest and its blank on the line being parsed.
Rest == sample.file

\* Rest is one character, or does not start with a space or '*'.
ReversedShape == Len(Rest) = 1 \/ Rest[1] \notin {" ", "*"}

\* The line was read in the reversed style: the name is all of Rest and
\* no mode was read.
ReadReversed ==
  /\ parse'.ok /\ parse'.bsd_reversed = 1
  /\ parse'.file_name = Rest /\ parse'.binary = -1

\* The line was read in the GNU style: the first character of Rest is the
\* mode and the name is what follows it.
ReadGnu ==
  /\ parse'.ok /\ parse'.bsd_reversed = 0
  /\ parse'.binary = (IF Rest[1] = "*" THEN 1 ELSE 0)
  /\ parse'.file_name = Tail(Rest)

\* C27 as stated: an untagged line is read in the reversed style if it is
\* accepted and what follows the digest and its blank is one character or
\* does not start with a space or '*'; every other untagged line is read in
\* the GNU style, its mode character taken off the file name.
C27_StyleByShape ==
  [][ParseStep => IF ReversedShape THEN (parse'.ok => ReadReversed)
                  ELSE ReadGnu]_vars

\* What split_3 does with the line by its shape and by the style that the
\* lines before it have set.
StyleStep ==
  ParseStep =>
    IF ReversedShape
    THEN IF bsd_reversed = 0
         THEN ~parse'.ok /\ bsd_reversed' = 0
         ELSE ReadReversed
    ELSE IF bsd_reversed # 1
         THEN ReadGnu
         ELSE ReadReversed

\* C27 as amended: a line of the reversed shape is read in the reversed
\* style unless an earlier line has set the GNU style, and then it is
\* rejected; a line of the other shape is read in the GNU style, its mode
\* character taken off the file name, unless an earlier line has set the
\* reversed style, and then it is read in the reversed style too, its mode
\* character staying the first character of the file name.
C27_StyleByShapeAndLatch == [][StyleStep]_vars

\* After a line of the reversed shape, a line of the GNU shape was read in
\* the reversed style; and a one-character line was read.
C27_Witness ==
  /\ pc = "parsed" /\ parse.ok /\ parse.bsd_reversed = 1
  /\ Len(parse.file_name) >= 2
  /\ parse.file_name[1] \in {" ", "*"}

\* C28: in the SHA-3 build every line that split_3 accepts leaves a digest
\* length that sha3_stream has a case for, and no line ends in the branch of
\* sha3_stream for an invalid digest size.
C28_AcceptedLengthsSupported ==
  (build = "SHA3" /\ hist # << >>) =>
    /\ hist[Len(hist)].parsed => digest_length \div 8 \in {28, 32, 48, 64}
    /\ hist[Len(hist)].kind # "abort"

RECURSIVE Flat(_)
\* The lines of all the manifests checked so far, in the order in which they
\* were read.
Flat(hs) == IF hs = << >> THEN << >> ELSE Head(hs) \o Flat(Tail(hs))

\* Every line handled so far, once: those of the manifests that are done, and
\* those of the manifest that digest_check is reading.
LinesSoFar ==
  Flat([c \in 1..Len(runs) |-> runs[c].hist])
    \o (IF pc \in {"lines", "aborted"} THEN hist ELSE << >>)

\* The value of bsd_reversed after line I of LINES was handled.
LatchAfter(lines, i) == IF i < Len(lines) THEN lines[i + 1].latch ELSE bsd_reversed

\* C29: bsd_reversed only moves from -1 to 0 or from -1 to 1: once a line
\* has set it, no later line changes it, in the same manifest or in a later
\* one of the same run, and a tagged line never changes it.
C29_LatchSetOnce ==
  \A lines \in {LinesSoFar} :
    \A i \in 1..Len(lines) :
      /\ LatchAfter(lines, i) # lines[i].latch =>
           lines[i].latch = -1 /\ LatchAfter(lines, i) \in {0, 1}
      /\ lines[i].style = "tagged" => LatchAfter(lines, i) = lines[i].latch

\* A second manifest is being checked with the style that the first one
\* set: its first line was tagged, its second untagged, and the style is
\* the one the first manifest left.
C29_Witness ==
  /\ Len(runs) = 1 /\ Len(runs[1].hist) = 2 /\ Len(hist) = 2
  /\ runs[1].hist[1].style = "tagged" /\ runs[1].hist[1].latch = -1
  /\ runs[1].hist[2].style = "bsd_reversed" /\ runs[1].hist[2].parsed
  /\ hist[1].latch = 1 /\ hist[2].latch = 1
  /\ bsd_reversed = 1

\* The flags among status_only, warn and quiet that are true.
OutputFlags(s, w, q) ==
  (IF s THEN {"status"} ELSE {}) \cup (IF w THEN {"warn"} ELSE {})
    \cup (IF q THEN {"quiet"} ELSE {})

\* A step that changes one of the three flags leaves true exactly one flag,
\* one that was false before: the flag of the option that the step handles.
LastOptionWins ==
  OutputFlags(status_only', warn', quiet') # OutputFlags(status_only, warn, quiet) =>
    /\ pc = "getopt"
    /\ Cardinality(OutputFlags(status_only', warn', quiet')) = 1
    /\ OutputFlags(status_only', warn', quiet')
         \cap OutputFlags(status_only, warn, quiet) = {}

====
